---- MODULE Spec2Model ----
(***************************************************************************)
(* ReportActionsView: windowing of the combined report actions around a    *)
(* linked (deep-link) action, and the pagination callbacks loadOlderChats  *)
(* and loadNewerChats.                                                     *)
(*                                                                         *)
(* An action is identified by its reportActionID, a positive number; its   *)
(* created timestamp and actionName are attributes of the identifier.      *)
(* Lists of actions are sequences of identifiers, newest first, as the     *)
(* store's selector delivers them.  NoID stands for the empty string '',   *)
(* for undefined and for the '0' default of a request argument.            *)
(***************************************************************************)
EXTENDS Integers, Sequences, FiniteSets, TLC

\* ---------------------------------------------------------------- bounds
\* Number of distinct report actions the store can hold for the report.
MaxActions == 3

\* Page budget of the linked-action window (getInitialPaginationSize).
getInitialPaginationSize == 1

\* ------------------------------------------------------------- constants
NoID == 0

\* loadNewerChats: `reportActions.length > 23`
OlderFirstThreshold == 23

\* Gap-repair effect: `reportActions.length < 24`
GapRepairLimit == 24

DIFF_BETWEEN_SCREEN_HEIGHT_AND_LIST == 120

SPACER == 16

\* Sound: `export default withMinimalExecutionTime(playSound, 300)`
minExecutionTime == 300

\* The amounts of time that pass in one step.
TimeSteps == {minExecutionTime \div 2, minExecutionTime}

\* Arguments of the throttled function: the sound files played.
SoundFiles == {"receive", "success"}

Min(a, b) == IF a < b THEN a ELSE b

\* BaseTextInput: CONST.POLICY.ROOM_PREFIX
ROOM_PREFIX == "#"

\* Values of the prefixCharacter prop: absent, the room prefix, and others.
Prefixes == {"", ROOM_PREFIX, "@", "$"}

\* The value prop when it is not given.
NoValue == "undefined"

\* Values of the value prop.
Values == {NoValue, "", "a"}

ActionIDs == 1..MaxActions

\* Identifiers of the transaction thread report's actions: one, which lies
\* between the report's own actions by timestamp.  The report's own actions
\* are the others.
ThreadActionIDs == {i \in ActionIDs : i = 2}

PrimaryActionIDs == ActionIDs \ ThreadActionIDs

\* The action whose pendingAction can be 'delete': the newest one.
DeletableIDs == {MaxActions}

ReportID == "R"

\* Number of calls of the throttled function.
MaxCalls == 3

\* List identifiers: two of the integers 1..Number.MAX_SAFE_INTEGER that
\* generateNewRandomInt draws from.
ListIDs == {1, 2}

\* session?.authTokenType: undefined, CONST.AUTH_TOKEN_TYPES.ANONYMOUS, or
\* another type.
NoAuthTokenType == ""

ANONYMOUS == "anonymousAccount"

AuthTokenTypes == {NoAuthTokenType, ANONYMOUS, "support"}

ThreadReportID == "T"

\* ----------------------------------------------------- action attributes
\* created timestamp of an action; a total order.
Created(id) == id

\* The oldest action of a report is its CREATED action.
ActionName(id) == IF id = 1 THEN "CREATED" ELSE "ADDCOMMENT"

\* An absent transaction thread report (null / undefined / {}).
NoThreadReport == [reportID |-> "", lastVisibleActionCreated |-> 0]

ThreadReports ==
    {NoThreadReport, [reportID |-> ThreadReportID, lastVisibleActionCreated |-> Created(2)]}

lodashIsEmpty(threadReport) == threadReport.reportID = ""

\* Values of report.lastVisibleActionCreated: unset, or the timestamp of the
\* newest action the server knows.
LastVisibleValues == {0, Created(MaxActions)}

\* ------------------------------------------------------ sequence helpers
Range(s) == {s[i] : i \in 1..Len(s)}

Max(a, b) == IF a > b THEN a ELSE b

SetMax(S) == CHOOSE x \in S : \A y \in S : Created(y) <= Created(x)

RECURSIVE SortNewestFirst(_)
\* The identifiers of S ordered by created, newest first.
SortNewestFirst(S) ==
    IF S = {} THEN << >>
    ELSE LET m == SetMax(S) IN << m >> \o SortNewestFirst(S \ {m})

\* The identifiers a store can hold: those of ActionIDs, and those of a
\* report long enough for the older-first threshold of loadNewerChats.
DisplayableIDs == ActionIDs \cup (1..(GapRepairLimit + 2))

\* Every action there is, newest first.
AllActionsNewestFirst == SortNewestFirst(DisplayableIDs)

\* The actions of S, newest first.
SortedNewestFirst(S) == SelectSeq(AllActionsNewestFirst, LAMBDA a : a \in S)

\* Array.prototype.findIndex with an identifier comparison: the 0-based index
\* of the first entry equal to id, or -1.
FindIndex(s, id) ==
    IF \E i \in 1..Len(s) : s[i] = id
    THEN (CHOOSE i \in 1..Len(s) : s[i] = id /\ \A j \in 1..(i - 1) : s[j] # id) - 1
    ELSE -1

\* Array.prototype.slice(start): a negative start counts from the end.
Slice(s, start) ==
    LET from == IF start < 0 THEN Max(Len(s) + start, 0) ELSE start
    IN SubSeq(s, from + 1, Len(s))

\* Array.prototype.at(-1), NoID for undefined.
Last(s) == IF Len(s) = 0 THEN NoID ELSE s[Len(s)]

\* reportActions[0], NoID for undefined.
First(s) == IF Len(s) = 0 THEN NoID ELSE s[1]

VARIABLES
    allReportActions,               \* prop reportActions
    transactionThreadReportActions, \* prop
    transactionThreadReport,        \* prop as seen by the last render with new props
    lastVisibleActionCreated,       \* report.lastVisibleActionCreated
    pendingDeleteID,                \* the action whose pendingAction is 'delete', or NoID
    reportPreviewID,                \* the action whose actionName is REPORTPREVIEW, or NoID
    reportIsCreating,               \* report.pendingFields has createChat or addWorkspaceRoom set
    didSubscribeToReportTypingEvents, \* didSubscribeToReportTypingEvents.current
    typingTask,                     \* the typing effect's deferred task: "none", "scheduled", "cancelled", "done"
    subscribed,                     \* the reportIDs of the calls of subscribeToReportTypingEvents
    isLoadingInitialReportActions,
    isLoadingOlderReportActions,
    isLoadingNewerReportActions,
    isReadyForCommentLinking,
    isOffline,                      \* network.isOffline
    reportActionID,                 \* route.params.reportActionID, NoID when absent
    currentReportActionID,          \* useState('')
    isFirstLinkedActionRender,      \* useRef(true)
    firstAtRender,                  \* isFirstLinkedActionRender.current as the last render's memos read it
    indexOfLinkedAction,            \* memo of the last render
    reportActions,                  \* memo of the last render: the window
    windowHeight,
    contentListHeight,              \* useRef(0)
    called,                         \* "mount", or the callback or navigation the last step ran, or ""
    requests,                       \* the requests issued by the last step
    mounted,                        \* the component is mounted
    mountTask,                      \* the deferred task of the mount effect
    isReportFullyVisible,           \* getIsReportFullyVisible(isFocused)
    reportIsFetchable,              \* shouldFetchReport(report)
    prevNetworkIsOffline,           \* prevNetworkRef.current.isOffline
    isNavigatingToLinkedMessage,    \* useState(!!reportActionID)
    settleTask,                     \* the deferred settle of the navigating effect's last run
    orphanInteraction,              \* an interaction callback of a cleaned-up run is still queued
    orphanTimer,                    \* a timer set by such a callback is running
    authTokenType,                  \* session?.authTokenType
    prevAuthTokenType,              \* what usePrevious(session?.authTokenType) holds
    didUserLogInDuringSession,      \* result of didUserLogInDuringSession()
    isUserCreatedPolicyRoom,        \* isUserCreatedPolicyRoom(report)
    isSmallScreenWidth,             \* useWindowDimensions().isSmallScreenWidth
    prevIsSmallScreenWidth,         \* prevIsSmallScreenWidthRef.current
    listOldID,                      \* module-level listOldID
    listID,                         \* the listID memo of this view
    otherListID,                    \* the listID memo of another mounted view, 0 if none
    queue,                          \* withMinimalExecutionTime: the queued calls (number, argument)
    timerId,                        \* withMinimalExecutionTime: 0 for null, 1 for a timer's id
    timerPending,                   \* a timeout for processQueue is scheduled
    timerLeft,                      \* time until that timeout may fire
    elapsed,                        \* time since func last ran, up to minExecutionTime
    callsMade,                      \* number of calls of the wrapper so far
    executed,                       \* the calls whose func(...args) has run, in order
    promise,                        \* state of the promise each call returned
    soundCalled,                    \* "call", "timer" or "": what the last step ran
    prefixCharacter,                \* BaseTextInput prop, "" when absent
    forceActiveLabel,               \* BaseTextInput prop
    value,                          \* BaseTextInput prop, NoValue when absent
    onFocusProp,                    \* inputProps.onFocus is given
    onBlurProp,                     \* inputProps.onBlur is given
    isFocused,                      \* BaseTextInput useState(false)
    hasValueRef,                    \* hasValueRef.current
    hasValue,                       \* hasValue of the last render
    isLabelActive,                  \* isLabelActive.current
    rendered,                       \* what getCharacterPadding did in the last render
    propCalled,                     \* the prop callbacks the last handler invoked
    thrown,                         \* the error the last handler threw, "" if none
    textCalled,                     \* the handler of the input that ran last, "" if none
    oldProps,                       \* React.memo: the props of the last render
    newProps,                       \* React.memo: the props the parent passed last
    propsAreEqual                   \* what arePropsEqual(oldProps, newProps) returned for them

viewVars == <<allReportActions, transactionThreadReportActions, transactionThreadReport,
          lastVisibleActionCreated, pendingDeleteID,
          isLoadingInitialReportActions, isLoadingOlderReportActions,
          isLoadingNewerReportActions, isReadyForCommentLinking, isOffline,
          reportActionID, currentReportActionID, isFirstLinkedActionRender,
          firstAtRender, indexOfLinkedAction, reportActions, windowHeight, contentListHeight, called,
          requests, mounted, mountTask, isReportFullyVisible, reportIsFetchable,
          prevNetworkIsOffline, isNavigatingToLinkedMessage, settleTask, orphanInteraction,
          orphanTimer, authTokenType, prevAuthTokenType, didUserLogInDuringSession,
          isUserCreatedPolicyRoom, isSmallScreenWidth, prevIsSmallScreenWidth,
          listOldID, listID, otherListID, reportPreviewID, reportIsCreating,
          didSubscribeToReportTypingEvents, typingTask, subscribed>>

soundVars == <<queue, timerId, timerPending, timerLeft, elapsed, callsMade, executed,
               promise, soundCalled>>

textVars == <<prefixCharacter, forceActiveLabel, value, onFocusProp, onBlurProp, isFocused,
              hasValueRef, hasValue, isLabelActive, rendered, propCalled, thrown,
              textCalled>>

memoVars == <<oldProps, newProps, propsAreEqual>>

vars == <<viewVars, soundVars, textVars, memoVars>>

\* ------------------------------------------------------------- the render
\* ReportActionsUtils.getCombinedReportActionsForDisplay: the merge of two
\* sequences that are each newest first: one sequence, newest first, without
\* duplicate identifiers, the thread's entries interleaved.  The merge with
\* an empty sequence is the other sequence.
getCombinedReportActionsForDisplay(all, thread) ==
    IF thread = << >> THEN all
    ELSE IF all = << >> THEN thread
    ELSE SortedNewestFirst(Range(all) \cup Range(thread))

isLoading_IgnoresReadiness(linkedID, loadingInitial, ready) ==
    linkedID # NoID /\ loadingInitial

isLoading(linkedID, loadingInitial, ready) ==
    (linkedID # NoID /\ loadingInitial) \/ ~ready

ComputeIndexOfLinkedAction(combined, linkedID, currentID, first, loading) ==
    IF linkedID = NoID \/ loading
    THEN -1
    ELSE FindIndex(combined, IF first THEN linkedID ELSE currentID)

\* Variants of the window computation with one slip each.
ComputeReportActions_SkipsTarget(combined, linkedID, index, first, loading) ==
    IF linkedID = NoID THEN combined
    ELSE IF loading \/ index = -1 THEN << >>
    ELSE IF first THEN Slice(combined, index + 1)
    ELSE Slice(combined, Max(index - getInitialPaginationSize, 0))

ComputeReportActions_NoClamp(combined, linkedID, index, first, loading) ==
    IF linkedID = NoID THEN combined
    ELSE IF loading \/ index = -1 THEN << >>
    ELSE IF first THEN Slice(combined, index)
    ELSE Slice(combined, index - getInitialPaginationSize)

ComputeReportActions_LoadingFirst(combined, linkedID, index, first, loading) ==
    IF loading THEN << >>
    ELSE IF linkedID = NoID THEN combined
    ELSE IF index = -1 THEN << >>
    ELSE IF first THEN Slice(combined, index)
    ELSE Slice(combined, Max(index - getInitialPaginationSize, 0))

ComputeReportActions_Head(combined, linkedID, index, first, loading) ==
    IF linkedID = NoID THEN combined
    ELSE IF loading \/ index = -1 THEN << >>
    ELSE IF first THEN SubSeq(combined, 1, index + 1)
    ELSE Slice(combined, Max(index - getInitialPaginationSize, 0))

ComputeReportActions(combined, linkedID, index, first, loading) ==
    IF linkedID = NoID THEN combined
    ELSE IF loading \/ index = -1 THEN << >>
    ELSE IF first THEN Slice(combined, index)
    ELSE Slice(combined, Max(index - getInitialPaginationSize, 0))

combinedReportActions ==
    getCombinedReportActionsForDisplay(allReportActions, transactionThreadReportActions)

\* The memos of a render, from the values the render sees (primed: the values
\* after the step) and the value `first` of isFirstLinkedActionRender.current
\* left by the listID memo.
Render(first) ==
    LET combined == getCombinedReportActionsForDisplay(allReportActions', transactionThreadReportActions')
        loading == isLoading(reportActionID', isLoadingInitialReportActions', isReadyForCommentLinking')
        index == ComputeIndexOfLinkedAction(combined, reportActionID', currentReportActionID', first, loading)
    IN /\ isFirstLinkedActionRender' = first
       /\ firstAtRender' = first
       /\ indexOfLinkedAction' = index
       /\ reportActions' = ComputeReportActions(combined, reportActionID', index, first, loading)

\* A render caused by new props (arePropsEqual returned false).  arePropsEqual
\* does not compare transactionThreadReport, so a change of it in the store
\* causes no render by itself: the component sees the store's value of the
\* moment of this render, which the store may have changed since the last one.
PropsRender(first) ==
    /\ transactionThreadReport' \in ThreadReports
    /\ Render(first)

\* A render caused by the component's own state or hooks: the props are the
\* ones of the last render with new props.
StateRender(first) ==
    /\ UNCHANGED transactionThreadReport
    /\ Render(first)

\* ------------------------------------------------------- derived values
reportActionIDMap ==
    [i \in 1..Len(reportActions) |->
        [reportActionID |-> reportActions[i],
         reportID |-> IF reportActions[i] \in Range(allReportActions)
                      THEN ReportID ELSE transactionThreadReport.reportID]]

hasMoreCached == Len(reportActions) < Len(combinedReportActions)

newestReportAction == First(reportActions)

oldestReportAction == Last(reportActions)

hasNewestReportAction_IgnoresReport ==
    LET created == IF Len(reportActions) = 0 THEN 0 ELSE Created(reportActions[1])
    IN created = transactionThreadReport.lastVisibleActionCreated

hasNewestReportAction ==
    LET created == IF Len(reportActions) = 0 THEN 0 ELSE Created(reportActions[1])
    IN created = lastVisibleActionCreated
       \/ created = transactionThreadReport.lastVisibleActionCreated

hasCreatedAction ==
    oldestReportAction # NoID /\ ActionName(oldestReportAction) = "CREATED"

checkIfContentSmallerThanList ==
    windowHeight - DIFF_BETWEEN_SCREEN_HEIGHT_AND_LIST - SPACER > contentListHeight

shouldEnableAutoScroll_IgnoresNavigating == hasNewestReportAction

shouldEnableAutoScroll ==
    hasNewestReportAction /\ (reportActionID = NoID \/ ~isNavigatingToLinkedMessage)

\* ---------------------------------------------------------------- requests
Request(by, fn, rid, aid) == [by |-> by, fn |-> fn, reportID |-> rid, reportActionID |-> aid]

\* reportActionIDMap.find(item => item.reportID === rid): index or 0
MapFind(rid) ==
    IF \E i \in 1..Len(reportActions) : reportActionIDMap[i].reportID = rid
    THEN CHOOSE i \in 1..Len(reportActions) :
            /\ reportActionIDMap[i].reportID = rid
            /\ \A j \in 1..(i - 1) : reportActionIDMap[j].reportID # rid
    ELSE 0

\* reportActionIDMap.findLast(item => item.reportID === rid): index or 0
MapFindLast(rid) ==
    IF \E i \in 1..Len(reportActions) : reportActionIDMap[i].reportID = rid
    THEN CHOOSE i \in 1..Len(reportActions) :
            /\ reportActionIDMap[i].reportID = rid
            /\ \A j \in (i + 1)..Len(reportActions) : reportActionIDMap[j].reportID # rid
    ELSE 0

\* Report.<fn>(item?.reportID ?? '0', item?.reportActionID ?? '0')
AnchoredRequest(by, fn, i) ==
    IF i = 0 THEN Request(by, fn, "0", NoID)
    ELSE Request(by, fn, reportActionIDMap[i].reportID, reportActionIDMap[i].reportActionID)

\* ------------------------------------------------------------------ effects
lifeVars == <<mounted, mountTask>>

screenVars == <<isReportFullyVisible, reportIsFetchable>>

\* Refs and memos only a render of this view changes.
refVars == <<prevAuthTokenType, prevIsSmallScreenWidth, listOldID, listID>>

hookVars == <<prevNetworkIsOffline, isNavigatingToLinkedMessage, settleTask,
              orphanInteraction, orphanTimer, refVars>>

\* The session, the report's kind and the layout, as the hooks deliver them.
signalVars == <<authTokenType, didUserLogInDuringSession, isUserCreatedPolicyRoom,
                isSmallScreenWidth>>

\* What no handler of this view changes.
farVars == <<signalVars, reportPreviewID, otherListID, soundVars, textVars, memoVars>>

\* The typing-subscription effect's state; the effect runs again only when
\* report.pendingFields or reportID change.
typingVars == <<reportIsCreating, didSubscribeToReportTypingEvents, typingTask, subscribed>>

outerVars == <<farVars, typingVars>>

\* The typing-subscription effect (deps [report.pendingFields,
\* didSubscribeToReportTypingEvents, reportID]) of a render whose report has
\* pendingFields.createChat or addWorkspaceRoom set iff `creating`: the
\* deferred task it leaves, `task` being the one of its previous run, which
\* that run's cleanup cancels.
typingCleanup(task) == IF task = "scheduled" THEN "cancelled" ELSE task

typingEffect_IgnoresPendingFields(creating, didSubscribe, task) ==
    IF ~didSubscribe THEN "scheduled" ELSE typingCleanup(task)

typingEffect(creating, didSubscribe, task) ==
    IF ~didSubscribe /\ ~creating THEN "scheduled" ELSE typingCleanup(task)

\* openReportIfNecessary / reconnectReportIfNecessary of a render whose report
\* gives shouldFetchReport(report) = shouldFetch and whose route links to
\* linkedID.
openReportIfNecessary(by, shouldFetch, linkedID) ==
    IF shouldFetch THEN << Request(by, "openReport", ReportID, linkedID) >> ELSE << >>

reconnectReportIfNecessary(by, shouldFetch) ==
    IF shouldFetch THEN << Request(by, "reconnect", ReportID, NoID) >> ELSE << >>

\* The deferred task the mount effect schedules: none with a deep-link
\* target; otherwise openReportIfNecessary of the mount's render, whose
\* outcome is fixed by the report of that render.
mountEffect(linkedID, shouldFetch) ==
    IF linkedID # NoID THEN "none"
    ELSE IF shouldFetch THEN "open" ELSE "skip"

deepLinkEffect_EveryRender(routeChanged) ==
    IF reportActionID' # NoID
    THEN << Request("linkEffect", "openReport", ReportID, reportActionID') >>
    ELSE << >>

\* The deep-link effect (deps [route]) of a render after the step.
deepLinkEffect(routeChanged) ==
    IF routeChanged /\ reportActionID' # NoID
    THEN << Request("linkEffect", "openReport", ReportID, reportActionID') >>
    ELSE << >>

\* The network effect (deps [network, isReportFullyVisible]) runs in the
\* render after a step that changes one of them.
networkEffectRuns ==
    isOffline' # isOffline \/ isReportFullyVisible' # isReportFullyVisible

networkEffect_NoPrevCheck ==
    IF networkEffectRuns /\ ~isOffline'
    THEN IF isReportFullyVisible'
         THEN openReportIfNecessary("networkEffect", reportIsFetchable', reportActionID')
         ELSE reconnectReportIfNecessary("networkEffect", reportIsFetchable')
    ELSE << >>

networkEffect_AlwaysOpen ==
    IF networkEffectRuns /\ prevNetworkIsOffline /\ ~isOffline'
    THEN openReportIfNecessary("networkEffect", reportIsFetchable', reportActionID')
    ELSE << >>

networkEffect ==
    IF networkEffectRuns /\ prevNetworkIsOffline /\ ~isOffline'
    THEN IF isReportFullyVisible'
         THEN openReportIfNecessary("networkEffect", reportIsFetchable', reportActionID')
         ELSE reconnectReportIfNecessary("networkEffect", reportIsFetchable')
    ELSE << >>

\* The report prop is another object than at the last render.
reportChanged ==
    \/ lastVisibleActionCreated' # lastVisibleActionCreated
    \/ reportIsFetchable' # reportIsFetchable
    \/ isUserCreatedPolicyRoom' # isUserCreatedPolicyRoom

\* The auth effect (deps [session, report, isReportFullyVisible]).
authEffectRuns ==
    \/ authTokenType' # authTokenType
    \/ reportChanged
    \/ isReportFullyVisible' # isReportFullyVisible

wasLoginChangedDetected ==
    prevAuthTokenType = ANONYMOUS /\ authTokenType' = NoAuthTokenType

authEffect_IgnoresRoom ==
    IF authEffectRuns /\ wasLoginChangedDetected /\ didUserLogInDuringSession'
    THEN IF isReportFullyVisible'
         THEN openReportIfNecessary("authEffect", reportIsFetchable', reportActionID')
         ELSE reconnectReportIfNecessary("authEffect", reportIsFetchable')
    ELSE << >>

authEffect ==
    IF /\ authEffectRuns
       /\ wasLoginChangedDetected
       /\ didUserLogInDuringSession'
       /\ isUserCreatedPolicyRoom'
    THEN IF isReportFullyVisible'
         THEN openReportIfNecessary("authEffect", reportIsFetchable', reportActionID')
         ELSE reconnectReportIfNecessary("authEffect", reportIsFetchable')
    ELSE << >>

\* The viewport effect (deps [isSmallScreenWidth, reportActions,
\* isReportFullyVisible]).
viewportEffectRuns ==
    \/ isSmallScreenWidth' # isSmallScreenWidth
    \/ reportActions' # reportActions
    \/ isReportFullyVisible' # isReportFullyVisible

didScreenSizeIncrease == prevIsSmallScreenWidth /\ ~isSmallScreenWidth'

viewportEffect_IgnoresVisibility ==
    IF viewportEffectRuns /\ didScreenSizeIncrease
    THEN openReportIfNecessary("viewportEffect", reportIsFetchable', reportActionID')
    ELSE << >>

viewportEffect ==
    IF viewportEffectRuns /\ isReportFullyVisible' /\ didScreenSizeIncrease
    THEN openReportIfNecessary("viewportEffect", reportIsFetchable', reportActionID')
    ELSE << >>

\* generateNewRandomInt(old, 1, Number.MAX_SAFE_INTEGER): the values it can
\* return, any of the range but old.
generateNewRandomInt(old) == ListIDs \ {old}

\* The listID memo (deps [route, isLoadingInitialReportActions]) of a render
\* after the step; that it sets isFirstLinkedActionRender.current is part of
\* the render.
listIDMemoRuns(routeChanged) ==
    routeChanged \/ isLoadingInitialReportActions' # isLoadingInitialReportActions

listIDMemo(routeChanged) ==
    IF listIDMemoRuns(routeChanged)
    THEN /\ listID' \in generateNewRandomInt(listOldID)
         /\ listOldID' = listID'
    ELSE UNCHANGED <<listOldID, listID>>

\* newestReportAction?.reportActionID === reportActionID; both undefined with
\* an empty window and no deep-link target.
isTheFirstReportActionIsLinked == newestReportAction = reportActionID

\* The navigating effect (deps [isTheFirstReportActionIsLinked]).  The cleanup
\* of the previous run clears its timer if the timer is set; an interaction
\* callback that has not run yet stays queued.
navigatingEffect ==
    IF isTheFirstReportActionIsLinked' = isTheFirstReportActionIsLinked
    THEN UNCHANGED <<isNavigatingToLinkedMessage, settleTask, orphanInteraction, orphanTimer>>
    ELSE /\ orphanInteraction' = (orphanInteraction \/ settleTask = "interaction")
         /\ UNCHANGED orphanTimer
         /\ IF isTheFirstReportActionIsLinked'
            THEN /\ isNavigatingToLinkedMessage' = TRUE
                 /\ settleTask' = "none"
            ELSE /\ UNCHANGED isNavigatingToLinkedMessage
                 /\ settleTask' = "interaction"

\* The gap-repair effect (deps [hasCreatedAction, reportID, reportActions,
\* reportActionID, newestReportAction?.actionName, isReadyForCommentLinking,
\* and the three loading flags]).  An emission of the report's actions gives
\* the reportActions memo a new array.
gapRepairEffectRuns ==
    \/ hasCreatedAction' # hasCreatedAction
    \/ reportActions' # reportActions
    \/ allReportActions' # allReportActions
    \/ reportPreviewID' # reportPreviewID
    \/ reportActionID' # reportActionID
    \/ isReadyForCommentLinking' # isReadyForCommentLinking
    \/ isLoadingOlderReportActions' # isLoadingOlderReportActions
    \/ isLoadingNewerReportActions' # isLoadingNewerReportActions
    \/ isLoadingInitialReportActions' # isLoadingInitialReportActions

shouldOpenReport_IgnoresNewerFetch ==
    /\ newestReportAction # NoID
    /\ newestReportAction = reportPreviewID
    /\ ~hasCreatedAction
    /\ isReadyForCommentLinking
    /\ Len(reportActions) < GapRepairLimit
    /\ Len(reportActions) >= 1
    /\ ~isLoadingInitialReportActions
    /\ ~isLoadingOlderReportActions

shouldOpenReport ==
    /\ newestReportAction # NoID
    /\ newestReportAction = reportPreviewID
    /\ ~hasCreatedAction
    /\ isReadyForCommentLinking
    /\ Len(reportActions) < GapRepairLimit
    /\ Len(reportActions) >= 1
    /\ ~isLoadingInitialReportActions
    /\ ~isLoadingOlderReportActions
    /\ ~isLoadingNewerReportActions

gapRepairEffect ==
    IF gapRepairEffectRuns /\ shouldOpenReport'
    THEN << Request("gapRepairEffect", "openReport", ReportID, reportActionID') >>
    ELSE << >>

\* The effects of the render that ends a step: `before` are the requests the
\* step's handler issued itself.
RunEffects(routeChanged, before) ==
    /\ listIDMemo(routeChanged)
    /\ requests' = before \o deepLinkEffect(routeChanged) \o networkEffect
                     \o authEffect \o viewportEffect \o gapRepairEffect
    /\ prevNetworkIsOffline' = IF networkEffectRuns THEN isOffline' ELSE prevNetworkIsOffline
    /\ prevAuthTokenType' = authTokenType'
    /\ prevIsSmallScreenWidth' =
         IF viewportEffectRuns THEN isSmallScreenWidth' ELSE prevIsSmallScreenWidth
    /\ navigatingEffect

\* -------------------------------------------------------------------- Init
propVars == <<allReportActions, transactionThreadReportActions, lastVisibleActionCreated,
              pendingDeleteID, isLoadingInitialReportActions, isLoadingOlderReportActions,
              isLoadingNewerReportActions, isReadyForCommentLinking>>

heightVars == <<windowHeight, contentListHeight>>

WindowHeights == {800}

\* Content shorter than the list, exactly as tall, and taller.
ContentHeights == {0, 800 - DIFF_BETWEEN_SCREEN_HEIGHT_AND_LIST - SPACER, 1000}

\* withMinimalExecutionTime(func, minExecutionTime) has returned the wrapper:
\* the queue is empty and no timer is set.
InitSound ==
    /\ queue = << >>
    /\ timerId = 0
    /\ timerPending = FALSE
    /\ timerLeft = 0
    /\ elapsed = 0
    /\ callsMade = 0
    /\ executed = << >>
    /\ promise = [c \in 1..MaxCalls |-> "none"]
    /\ soundCalled = ""

\* getCharacterPadding(prefix): what the call does.
NotCalled == [result |-> "none", value |-> 0, message |-> ""]

getCharacterPadding_DefaultsToZero(prefix) ==
    IF prefix = ROOM_PREFIX
    THEN [result |-> "returned", value |-> 10, message |-> ""]
    ELSE [result |-> "returned", value |-> 0, message |-> ""]

getCharacterPadding(prefix) ==
    IF prefix = ROOM_PREFIX
    THEN [result |-> "returned", value |-> 10, message |-> ""]
    ELSE [result |-> "threw", value |-> 0,
          message |-> "Prefix " \o prefix \o " has no padding assigned."]

\* A BaseTextInput mounted without prefix, value and callbacks.
InitTextInput ==
    /\ prefixCharacter = ""
    /\ forceActiveLabel = FALSE
    /\ value = NoValue
    /\ onFocusProp = FALSE
    /\ onBlurProp = FALSE
    /\ isFocused = FALSE
    /\ hasValueRef = FALSE
    /\ hasValue = FALSE
    /\ isLabelActive = FALSE
    /\ rendered = NotCalled
    /\ propCalled = << >>
    /\ thrown = ""
    /\ textCalled = ""

\* The values of the props arePropsEqual is given: ReportActionsViewProps.
PropValues ==
    [isReadyForCommentLinking |-> BOOLEAN,
     reportActions |-> {<< >>, << 1 >>},
     transactionThreadReportActions |-> {<< >>, << 2 >>},
     transactionThreadReport |-> ThreadReports,
     parentReportAction |-> {NoID, 1},
     authTokenType |-> {NoAuthTokenType, ANONYMOUS},
     isLoadingInitialReportActions |-> BOOLEAN,
     isLoadingOlderReportActions |-> BOOLEAN,
     isLoadingNewerReportActions |-> BOOLEAN,
     report |-> {[reportID |-> ReportID, lastVisibleActionCreated |-> lv] : lv \in LastVisibleValues}]

PropNames == DOMAIN PropValues

\* The props of the first render.
InitMemo ==
    /\ oldProps = [isReadyForCommentLinking |-> TRUE,
                   reportActions |-> << >>,
                   transactionThreadReportActions |-> << >>,
                   transactionThreadReport |-> NoThreadReport,
                   parentReportAction |-> NoID,
                   authTokenType |-> NoAuthTokenType,
                   isLoadingInitialReportActions |-> FALSE,
                   isLoadingOlderReportActions |-> FALSE,
                   isLoadingNewerReportActions |-> FALSE,
                   report |-> [reportID |-> ReportID, lastVisibleActionCreated |-> 0]]
    /\ newProps = oldProps
    /\ propsAreEqual = TRUE

\* The first render: any props, any route, the pointer empty and the
\* first-linked-render flag set.
InitProps ==
    /\ allReportActions \in {SortedNewestFirst(S) : S \in SUBSET PrimaryActionIDs}
    /\ transactionThreadReportActions \in {SortedNewestFirst(S) : S \in SUBSET ThreadActionIDs}
    /\ transactionThreadReport \in ThreadReports
    /\ pendingDeleteID = NoID
    /\ reportPreviewID = NoID
    /\ reportIsCreating \in BOOLEAN
    /\ isLoadingInitialReportActions \in BOOLEAN
    /\ isLoadingOlderReportActions = FALSE
    /\ isLoadingNewerReportActions = FALSE
    /\ isReadyForCommentLinking \in BOOLEAN
    /\ isOffline \in BOOLEAN
    /\ reportActionID \in {NoID} \cup ActionIDs
    /\ currentReportActionID = NoID
    /\ isFirstLinkedActionRender = TRUE
    /\ firstAtRender = TRUE
    /\ indexOfLinkedAction =
         ComputeIndexOfLinkedAction(combinedReportActions, reportActionID, NoID, TRUE,
             isLoading(reportActionID, isLoadingInitialReportActions, isReadyForCommentLinking))
    /\ reportActions =
         ComputeReportActions(combinedReportActions, reportActionID, indexOfLinkedAction, TRUE,
             isLoading(reportActionID, isLoadingInitialReportActions, isReadyForCommentLinking))
    /\ windowHeight \in WindowHeights
    /\ contentListHeight = 0
    /\ mounted = TRUE
    /\ prevNetworkIsOffline = isOffline
    /\ authTokenType \in {NoAuthTokenType, ANONYMOUS}
    /\ prevAuthTokenType = authTokenType
    /\ didUserLogInDuringSession = FALSE
    /\ isUserCreatedPolicyRoom \in BOOLEAN
    /\ isSmallScreenWidth \in BOOLEAN
    /\ prevIsSmallScreenWidth = isSmallScreenWidth
    /\ listID = 1
    /\ listOldID = listID
    /\ otherListID = 0
    /\ InitSound
    /\ InitTextInput
    /\ InitMemo

\* An authenticated session, a report that is no user-created room, and a
\* wide layout.
InitSignals ==
    /\ authTokenType = NoAuthTokenType
    /\ ~isUserCreatedPolicyRoom
    /\ ~isSmallScreenWidth

\* The state after the mount: the mount effect has scheduled its task, the
\* deep-link effect has opened the report at the target, and the navigating
\* effect has run once.
InitFreshMount ==
    /\ InitProps
    /\ isReportFullyVisible \in BOOLEAN
    /\ reportIsFetchable \in BOOLEAN
    /\ called = "mount"
    /\ mountTask = mountEffect(reportActionID, reportIsFetchable)
    /\ requests = IF reportActionID # NoID
                  THEN << Request("linkEffect", "openReport", ReportID, reportActionID) >>
                  ELSE << >>
    /\ isNavigatingToLinkedMessage = (reportActionID # NoID \/ isTheFirstReportActionIsLinked)
    /\ settleTask = IF isTheFirstReportActionIsLinked THEN "none" ELSE "interaction"
    /\ orphanInteraction = FALSE
    /\ orphanTimer = FALSE
    /\ didSubscribeToReportTypingEvents = FALSE
    /\ typingTask = typingEffect(reportIsCreating, FALSE, "none")
    /\ subscribed = << >>

\* Such a mount with a report that is not being created.
InitMount ==
    /\ InitFreshMount
    /\ ~reportIsCreating

\* A view mounted some time ago that has shown a linked action since: the
\* mount's deferred task has run, the view is navigating, and a settle
\* callback of an earlier run of the navigating effect is still queued.
InitBusy ==
    /\ InitProps
    /\ called = ""
    /\ mountTask = "done"
    /\ requests = << >>
    /\ isNavigatingToLinkedMessage = TRUE
    /\ settleTask = IF isTheFirstReportActionIsLinked THEN "none" ELSE "interaction"
    /\ orphanInteraction = TRUE
    /\ orphanTimer = FALSE
    /\ ~reportIsCreating
    /\ didSubscribeToReportTypingEvents = TRUE
    /\ typingTask = "done"
    /\ subscribed = << ReportID >>

\* Such a view of a fetchable report on a fully visible screen.
InitView ==
    /\ InitBusy
    /\ InitSignals
    /\ isReportFullyVisible = TRUE
    /\ reportIsFetchable = TRUE

\* ------------------------------------------------------- store emissions
OnyxReportActions(S) ==
    /\ mounted
    /\ allReportActions' = SortedNewestFirst(S)
    /\ allReportActions' # allReportActions
    /\ UNCHANGED <<transactionThreadReportActions,
                   lastVisibleActionCreated, pendingDeleteID, isLoadingInitialReportActions,
                   isLoadingOlderReportActions, isLoadingNewerReportActions,
                   isReadyForCommentLinking, isOffline, reportActionID, currentReportActionID,
                   heightVars>>
    /\ UNCHANGED outerVars
    /\ PropsRender(isFirstLinkedActionRender)
    /\ called' = ""
    /\ UNCHANGED <<lifeVars, screenVars>>
    /\ RunEffects(FALSE, << >>)

OnyxTransactionThreadReportActions(S) ==
    /\ mounted
    /\ transactionThreadReportActions' = SortedNewestFirst(S)
    /\ transactionThreadReportActions' # transactionThreadReportActions
    /\ UNCHANGED <<allReportActions,
                   lastVisibleActionCreated, pendingDeleteID, isLoadingInitialReportActions,
                   isLoadingOlderReportActions, isLoadingNewerReportActions,
                   isReadyForCommentLinking, isOffline, reportActionID, currentReportActionID,
                   heightVars>>
    /\ UNCHANGED outerVars
    /\ PropsRender(isFirstLinkedActionRender)
    /\ called' = ""
    /\ UNCHANGED <<lifeVars, screenVars>>
    /\ RunEffects(FALSE, << >>)

OnyxReport(lv) ==
    /\ mounted
    /\ lv # lastVisibleActionCreated
    /\ lastVisibleActionCreated' = lv
    /\ UNCHANGED <<allReportActions, transactionThreadReportActions,
                   pendingDeleteID, isLoadingInitialReportActions,
                   isLoadingOlderReportActions, isLoadingNewerReportActions,
                   isReadyForCommentLinking, isOffline, reportActionID, currentReportActionID,
                   heightVars>>
    /\ UNCHANGED outerVars
    /\ PropsRender(isFirstLinkedActionRender)
    /\ called' = ""
    /\ UNCHANGED <<lifeVars, screenVars>>
    /\ RunEffects(FALSE, << >>)

\* The store emits the report's actions with the actionName REPORTPREVIEW on
\* another action, or on none.
OnyxActionName(id) ==
    /\ mounted
    /\ id # reportPreviewID
    /\ reportPreviewID' = id
    /\ UNCHANGED <<propVars, isOffline, reportActionID, currentReportActionID, heightVars>>
    /\ UNCHANGED <<signalVars, otherListID, soundVars, textVars, typingVars, memoVars>>
    /\ PropsRender(isFirstLinkedActionRender)
    /\ called' = ""
    /\ UNCHANGED <<lifeVars, screenVars>>
    /\ RunEffects(FALSE, << >>)

\* An action of the collections gets or loses pendingAction 'delete'.
OnyxPendingAction(id) ==
    /\ mounted
    /\ id # pendingDeleteID
    /\ pendingDeleteID' = id
    /\ UNCHANGED <<allReportActions, transactionThreadReportActions,
                   lastVisibleActionCreated, isLoadingInitialReportActions,
                   isLoadingOlderReportActions, isLoadingNewerReportActions,
                   isReadyForCommentLinking, isOffline, reportActionID, currentReportActionID,
                   heightVars>>
    /\ UNCHANGED outerVars
    /\ PropsRender(isFirstLinkedActionRender)
    /\ called' = ""
    /\ UNCHANGED <<lifeVars, screenVars>>
    /\ RunEffects(FALSE, << >>)

\* isLoadingInitialReportActions is a dependency of the listID memo, which
\* sets isFirstLinkedActionRender.current = true.
SetIsLoadingInitialReportActions ==
    /\ mounted
    /\ isLoadingInitialReportActions' = ~isLoadingInitialReportActions
    /\ UNCHANGED <<allReportActions, transactionThreadReportActions,
                   lastVisibleActionCreated, pendingDeleteID,
                   isLoadingOlderReportActions, isLoadingNewerReportActions,
                   isReadyForCommentLinking, isOffline, reportActionID, currentReportActionID,
                   heightVars>>
    /\ UNCHANGED outerVars
    /\ PropsRender(TRUE)
    /\ called' = ""
    /\ UNCHANGED <<lifeVars, screenVars>>
    /\ RunEffects(FALSE, << >>)

SetIsLoadingOlderReportActions ==
    /\ mounted
    /\ isLoadingOlderReportActions' = ~isLoadingOlderReportActions
    /\ UNCHANGED <<allReportActions, transactionThreadReportActions,
                   lastVisibleActionCreated, pendingDeleteID,
                   isLoadingInitialReportActions, isLoadingNewerReportActions,
                   isReadyForCommentLinking, isOffline, reportActionID, currentReportActionID,
                   heightVars>>
    /\ UNCHANGED outerVars
    /\ PropsRender(isFirstLinkedActionRender)
    /\ called' = ""
    /\ UNCHANGED <<lifeVars, screenVars>>
    /\ RunEffects(FALSE, << >>)

SetIsLoadingNewerReportActions ==
    /\ mounted
    /\ isLoadingNewerReportActions' = ~isLoadingNewerReportActions
    /\ UNCHANGED <<allReportActions, transactionThreadReportActions,
                   lastVisibleActionCreated, pendingDeleteID,
                   isLoadingInitialReportActions, isLoadingOlderReportActions,
                   isReadyForCommentLinking, isOffline, reportActionID, currentReportActionID,
                   heightVars>>
    /\ UNCHANGED outerVars
    /\ PropsRender(isFirstLinkedActionRender)
    /\ called' = ""
    /\ UNCHANGED <<lifeVars, screenVars>>
    /\ RunEffects(FALSE, << >>)

SetIsReadyForCommentLinking ==
    /\ mounted
    /\ isReadyForCommentLinking' = ~isReadyForCommentLinking
    /\ UNCHANGED <<allReportActions, transactionThreadReportActions,
                   lastVisibleActionCreated, pendingDeleteID,
                   isLoadingInitialReportActions, isLoadingOlderReportActions,
                   isLoadingNewerReportActions, isOffline, reportActionID, currentReportActionID,
                   heightVars>>
    /\ UNCHANGED outerVars
    /\ PropsRender(isFirstLinkedActionRender)
    /\ called' = ""
    /\ UNCHANGED <<lifeVars, screenVars>>
    /\ RunEffects(FALSE, << >>)

\* ------------------------------------------------------- hooks and route
\* useNetwork reports the network offline; the network effect sees no
\* offline-to-online change and only records the state in prevNetworkRef.
NetworkGoesOffline ==
    /\ mounted
    /\ ~isOffline
    /\ isOffline' = TRUE
    /\ UNCHANGED <<propVars, reportActionID, currentReportActionID, heightVars>>
    /\ UNCHANGED outerVars
    /\ StateRender(isFirstLinkedActionRender)
    /\ called' = ""
    /\ UNCHANGED <<lifeVars, screenVars>>
    /\ RunEffects(FALSE, << >>)

\* useNetwork reports the network online again; the network effect finds
\* prevNetwork.isOffline && !network.isOffline.
NetworkGoesOnline ==
    /\ mounted
    /\ isOffline
    /\ isOffline' = FALSE
    /\ UNCHANGED <<propVars, reportActionID, currentReportActionID, heightVars>>
    /\ UNCHANGED outerVars
    /\ StateRender(isFirstLinkedActionRender)
    /\ called' = ""
    /\ UNCHANGED <<lifeVars, screenVars>>
    /\ RunEffects(FALSE, << >>)

\* useIsFocused reports a change of focus: isReportFullyVisible changes, a
\* dependency of the network effect.
SetIsFocused ==
    /\ mounted
    /\ isReportFullyVisible' = ~isReportFullyVisible
    /\ UNCHANGED <<propVars, isOffline, reportActionID, currentReportActionID, heightVars>>
    /\ UNCHANGED outerVars
    /\ StateRender(isFirstLinkedActionRender)
    /\ called' = ""
    /\ UNCHANGED <<lifeVars, reportIsFetchable>>
    /\ RunEffects(FALSE, << >>)

\* The store emits the report with other pendingFields (arePropsEqual
\* compares the report deeply): the typing effect's cleanup and the effect
\* run; `creating`: createChat or addWorkspaceRoom is set in them.  A change
\* of reportID runs the effect in the same way.
OnyxReportPendingFields(creating) ==
    /\ mounted
    /\ reportIsCreating' = creating
    /\ typingTask' = typingEffect(creating, didSubscribeToReportTypingEvents, typingTask)
    /\ UNCHANGED <<didSubscribeToReportTypingEvents, subscribed>>
    /\ UNCHANGED <<propVars, isOffline, reportActionID, currentReportActionID, heightVars>>
    /\ UNCHANGED farVars
    /\ PropsRender(isFirstLinkedActionRender)
    /\ called' = ""
    /\ UNCHANGED <<lifeVars, screenVars>>
    /\ RunEffects(FALSE, << >>)

\* The store emits a report for which shouldFetchReport gives another result.
OnyxReportFetchable ==
    /\ mounted
    /\ reportIsFetchable' = ~reportIsFetchable
    /\ UNCHANGED <<propVars, isOffline, reportActionID, currentReportActionID, heightVars>>
    /\ UNCHANGED outerVars
    /\ PropsRender(isFirstLinkedActionRender)
    /\ called' = ""
    /\ UNCHANGED <<lifeVars, isReportFullyVisible>>
    /\ RunEffects(FALSE, << >>)

\* The store emits a session with another authTokenType (arePropsEqual
\* compares it): usePrevious still holds the type of the render before.
OnyxSession(t) ==
    /\ mounted
    /\ t # authTokenType
    /\ authTokenType' = t
    /\ UNCHANGED <<propVars, isOffline, reportActionID, currentReportActionID, heightVars>>
    /\ UNCHANGED <<didUserLogInDuringSession, isUserCreatedPolicyRoom, isSmallScreenWidth,
                   otherListID,
                   reportPreviewID, soundVars, textVars, typingVars, memoVars>>
    /\ PropsRender(isFirstLinkedActionRender)
    /\ called' = ""
    /\ UNCHANGED <<lifeVars, screenVars>>
    /\ RunEffects(FALSE, << >>)

\* The store emits a report for which isUserCreatedPolicyRoom gives another
\* result.
OnyxReportRoom ==
    /\ mounted
    /\ isUserCreatedPolicyRoom' = ~isUserCreatedPolicyRoom
    /\ UNCHANGED <<propVars, isOffline, reportActionID, currentReportActionID, heightVars>>
    /\ UNCHANGED <<authTokenType, didUserLogInDuringSession, isSmallScreenWidth, otherListID,
                   reportPreviewID, soundVars, textVars, typingVars, memoVars>>
    /\ PropsRender(isFirstLinkedActionRender)
    /\ called' = ""
    /\ UNCHANGED <<lifeVars, screenVars>>
    /\ RunEffects(FALSE, << >>)

\* useWindowDimensions reports a layout change between narrow and wide.
SetIsSmallScreenWidth ==
    /\ mounted
    /\ isSmallScreenWidth' = ~isSmallScreenWidth
    /\ UNCHANGED <<propVars, isOffline, reportActionID, currentReportActionID, heightVars>>
    /\ UNCHANGED <<authTokenType, didUserLogInDuringSession, isUserCreatedPolicyRoom,
                   otherListID,
                   reportPreviewID, soundVars, textVars, typingVars, memoVars>>
    /\ StateRender(isFirstLinkedActionRender)
    /\ called' = ""
    /\ UNCHANGED <<lifeVars, screenVars>>
    /\ RunEffects(FALSE, << >>)

\* The route changes (a navigation event): the listID memo sets the
\* first-linked-render flag, the layout effect empties the pointer, and the
\* deep-link effect opens the report at the linked action.
Navigate_KeepsFlag(id) ==
    /\ mounted
    /\ reportActionID' = id
    /\ currentReportActionID' = NoID
    /\ UNCHANGED <<propVars, isOffline, heightVars>>
    /\ UNCHANGED outerVars
    /\ StateRender(isFirstLinkedActionRender)
    /\ called' = "Navigate"
    /\ UNCHANGED <<lifeVars, screenVars>>
    /\ RunEffects(TRUE, << >>)

Navigate(id) ==
    /\ mounted
    /\ reportActionID' = id
    /\ currentReportActionID' = NoID
    /\ UNCHANGED <<propVars, isOffline, heightVars>>
    /\ UNCHANGED outerVars
    /\ StateRender(TRUE)
    /\ called' = "Navigate"
    /\ UNCHANGED <<lifeVars, screenVars>>
    /\ RunEffects(TRUE, << >>)

renderVars == <<transactionThreadReport, isFirstLinkedActionRender, firstAtRender,
                indexOfLinkedAction, reportActions>>

\* The session library records or forgets that the user logged in during
\* the session; no prop or hook of the view changes.
SetDidUserLogInDuringSession ==
    /\ didUserLogInDuringSession' = ~didUserLogInDuringSession
    /\ called' = ""
    /\ requests' = << >>
    /\ UNCHANGED <<propVars, isOffline, reportActionID, currentReportActionID, heightVars,
                   renderVars, lifeVars, screenVars, hookVars>>
    /\ UNCHANGED <<authTokenType, isUserCreatedPolicyRoom, isSmallScreenWidth, otherListID,
                   reportPreviewID, soundVars, textVars, typingVars, memoVars>>

\* The listID memo of another mounted ReportActionsView runs (its mount, or
\* a change of its route or of its initial-loading flag): it reads and
\* writes the same module-level listOldID.
OtherInstanceListID ==
    /\ otherListID' \in generateNewRandomInt(listOldID)
    /\ listOldID' = otherListID'
    /\ called' = ""
    /\ requests' = << >>
    /\ UNCHANGED <<propVars, isOffline, reportActionID, currentReportActionID, heightVars,
                   renderVars, lifeVars, screenVars, signalVars>>
    /\ UNCHANGED <<prevNetworkIsOffline, isNavigatingToLinkedMessage, settleTask,
                   orphanInteraction, orphanTimer, prevAuthTokenType,
                   prevIsSmallScreenWidth, listID>>
    /\ UNCHANGED <<reportPreviewID, soundVars, textVars, typingVars, memoVars>>

\* ------------------------------------------------------------ deferred work
\* InteractionManager runs the task of the mount effect, unless it has been
\* cancelled: openReportIfNecessary of the mount's render, which had no
\* deep-link target.
RunMountTask ==
    /\ mountTask \in {"open", "skip"}
    /\ mountTask' = "done"
    /\ requests' = openReportIfNecessary("mountEffect", mountTask = "open", NoID)
    /\ called' = ""
    /\ UNCHANGED <<propVars, isOffline, reportActionID, currentReportActionID, heightVars,
                   renderVars, mounted, screenVars, hookVars>>
    /\ UNCHANGED outerVars

\* InteractionManager runs the task of the typing effect, unless it has been
\* cancelled: it subscribes to the report's typing events.
RunTypingTask ==
    /\ typingTask = "scheduled"
    /\ typingTask' = "done"
    /\ subscribed' = Append(subscribed, ReportID)
    /\ didSubscribeToReportTypingEvents' = TRUE
    /\ requests' = << >>
    /\ called' = ""
    /\ UNCHANGED <<propVars, isOffline, reportActionID, currentReportActionID, heightVars,
                   renderVars, lifeVars, screenVars, hookVars>>
    /\ UNCHANGED <<reportIsCreating, farVars>>

Unmount_NoCancel ==
    /\ mounted
    /\ mounted' = FALSE
    /\ settleTask' = "none"
    /\ orphanInteraction' = (orphanInteraction \/ settleTask = "interaction")
    /\ requests' = << >>
    /\ called' = ""
    /\ UNCHANGED <<propVars, isOffline, reportActionID, currentReportActionID, heightVars,
                   renderVars, screenVars, prevNetworkIsOffline, isNavigatingToLinkedMessage,
                   orphanTimer, mountTask>>
    /\ typingTask' = typingCleanup(typingTask)
    /\ UNCHANGED <<reportIsCreating, didSubscribeToReportTypingEvents, subscribed>>
    /\ UNCHANGED <<refVars, farVars>>

\* The component is torn down: the cleanups cancel the mount effect's task and
\* clear the settle timer if it is set.
Unmount ==
    /\ mounted
    /\ mounted' = FALSE
    /\ mountTask' = IF mountTask \in {"open", "skip"} THEN "cancelled" ELSE mountTask
    /\ settleTask' = "none"
    /\ orphanInteraction' = (orphanInteraction \/ settleTask = "interaction")
    /\ requests' = << >>
    /\ called' = ""
    /\ UNCHANGED <<propVars, isOffline, reportActionID, currentReportActionID, heightVars,
                   renderVars, screenVars, prevNetworkIsOffline, isNavigatingToLinkedMessage,
                   orphanTimer>>
    /\ typingTask' = typingCleanup(typingTask)
    /\ UNCHANGED <<reportIsCreating, didSubscribeToReportTypingEvents, subscribed>>
    /\ UNCHANGED <<refVars, farVars>>

\* InteractionManager runs the callback of the navigating effect's last run,
\* which starts the 10 ms timer.
RunSettleInteraction ==
    /\ settleTask = "interaction"
    /\ settleTask' = "timer"
    /\ requests' = << >>
    /\ called' = ""
    /\ UNCHANGED <<propVars, isOffline, reportActionID, currentReportActionID, heightVars,
                   renderVars, lifeVars, screenVars, prevNetworkIsOffline,
                   isNavigatingToLinkedMessage, orphanInteraction, orphanTimer>>
    /\ UNCHANGED <<refVars, outerVars>>

\* The timer fires: setNavigatingToLinkedMessage(false).  The render it causes
\* changes no memo and no effect dependency.
SettleTimerFires ==
    /\ settleTask = "timer"
    /\ settleTask' = "none"
    /\ isNavigatingToLinkedMessage' = FALSE
    /\ requests' = << >>
    /\ called' = ""
    /\ UNCHANGED <<propVars, isOffline, reportActionID, currentReportActionID, heightVars,
                   renderVars, lifeVars, screenVars, prevNetworkIsOffline,
                   orphanInteraction, orphanTimer>>
    /\ UNCHANGED <<refVars, outerVars>>

\* InteractionManager runs the callbacks of runs that were cleaned up before:
\* each starts a timer no cleanup will clear.
RunOrphanInteraction ==
    /\ orphanInteraction
    /\ orphanInteraction' = FALSE
    /\ orphanTimer' = TRUE
    /\ requests' = << >>
    /\ called' = ""
    /\ UNCHANGED <<propVars, isOffline, reportActionID, currentReportActionID, heightVars,
                   renderVars, lifeVars, screenVars, prevNetworkIsOffline,
                   isNavigatingToLinkedMessage, settleTask>>
    /\ UNCHANGED <<refVars, outerVars>>

\* Such a timer fires: setNavigatingToLinkedMessage(false), without effect on
\* an unmounted component.
OrphanTimerFires ==
    /\ orphanTimer
    /\ orphanTimer' = FALSE
    /\ isNavigatingToLinkedMessage' = (mounted /\ FALSE) \/ (~mounted /\ isNavigatingToLinkedMessage)
    /\ requests' = << >>
    /\ called' = ""
    /\ UNCHANGED <<propVars, isOffline, reportActionID, currentReportActionID, heightVars,
                   renderVars, lifeVars, screenVars, prevNetworkIsOffline,
                   orphanInteraction, settleTask>>
    /\ UNCHANGED <<refVars, outerVars>>

\* ------------------------------------------------------------- pagination
\* The list with the callbacks is rendered only for a non-empty window
\* (`if (!reportActions.length) return null`).
listIsRendered == mounted /\ Len(reportActions) > 0

\* The list reports the height of its content.
onContentSizeChange(h) ==
    /\ listIsRendered
    /\ h # contentListHeight
    /\ contentListHeight' = h
    /\ called' = ""
    /\ requests' = << >>
    /\ UNCHANGED <<propVars, isOffline, reportActionID, currentReportActionID, windowHeight,
                   renderVars, lifeVars, screenVars, hookVars>>
    /\ UNCHANGED outerVars

loadOlderChatsGuard_IgnoresOffline ==
    isLoadingOlderReportActions \/ isLoadingInitialReportActions

loadOlderChatsGuard ==
    isOffline \/ isLoadingOlderReportActions \/ isLoadingInitialReportActions

loadOlderChatsRequests_IgnoresCreated ==
    IF loadOlderChatsGuard THEN << >>
    ELSE IF oldestReportAction = NoID THEN << >>
    ELSE IF ~lodashIsEmpty(transactionThreadReport)
    THEN << AnchoredRequest("loadOlderChats", "getNewerActions", MapFindLast(ReportID)),
            AnchoredRequest("loadOlderChats", "getNewerActions",
                            MapFindLast(transactionThreadReport.reportID)) >>
    ELSE << Request("loadOlderChats", "getOlderActions", ReportID, oldestReportAction) >>

loadOlderChatsRequests_AnchorsNewest ==
    IF loadOlderChatsGuard THEN << >>
    ELSE IF oldestReportAction = NoID \/ hasCreatedAction THEN << >>
    ELSE IF ~lodashIsEmpty(transactionThreadReport)
    THEN << AnchoredRequest("loadOlderChats", "getNewerActions", MapFindLast(ReportID)),
            AnchoredRequest("loadOlderChats", "getNewerActions",
                            MapFindLast(transactionThreadReport.reportID)) >>
    ELSE << Request("loadOlderChats", "getOlderActions", ReportID, newestReportAction) >>

\* The requests of loadOlderChats.
loadOlderChatsRequests ==
    IF loadOlderChatsGuard THEN << >>
    ELSE IF oldestReportAction = NoID \/ hasCreatedAction THEN << >>
    ELSE IF ~lodashIsEmpty(transactionThreadReport)
    THEN << AnchoredRequest("loadOlderChats", "getNewerActions", MapFindLast(ReportID)),
            AnchoredRequest("loadOlderChats", "getNewerActions",
                            MapFindLast(transactionThreadReport.reportID)) >>
    ELSE << Request("loadOlderChats", "getOlderActions", ReportID, oldestReportAction) >>

loadOlderChats ==
    /\ listIsRendered
    /\ called' = "loadOlderChats"
    /\ requests' = loadOlderChatsRequests
    /\ UNCHANGED <<propVars, transactionThreadReport, isOffline,
                   reportActionID, currentReportActionID, isFirstLinkedActionRender,
                   firstAtRender, indexOfLinkedAction, reportActions, heightVars>>
    /\ UNCHANGED <<lifeVars, screenVars, hookVars>>
    /\ UNCHANGED outerVars

fetchNewerAction_FindLast ==
    IF isLoadingNewerReportActions \/ isLoadingInitialReportActions THEN << >>
    ELSE IF ~lodashIsEmpty(transactionThreadReport)
    THEN << AnchoredRequest("loadNewerChats", "getNewerActions", MapFindLast(ReportID)),
            AnchoredRequest("loadNewerChats", "getNewerActions",
                            MapFindLast(transactionThreadReport.reportID)) >>
    ELSE << Request("loadNewerChats", "getNewerActions", ReportID, oldestReportAction) >>

\* The requests of fetchNewerAction(newestReportAction).
fetchNewerAction ==
    IF isLoadingNewerReportActions \/ isLoadingInitialReportActions THEN << >>
    ELSE IF ~lodashIsEmpty(transactionThreadReport)
    THEN << AnchoredRequest("loadNewerChats", "getNewerActions", MapFind(ReportID)),
            AnchoredRequest("loadNewerChats", "getNewerActions",
                            MapFind(transactionThreadReport.reportID)) >>
    ELSE << Request("loadNewerChats", "getNewerActions", ReportID, newestReportAction) >>

loadNewerChatsGuard_IgnoresPendingDelete ==
    \/ isLoadingInitialReportActions
    \/ isLoadingOlderReportActions
    \/ isOffline

loadNewerChatsGuard ==
    \/ isLoadingInitialReportActions
    \/ isLoadingOlderReportActions
    \/ isOffline
    \/ (newestReportAction # NoID /\ newestReportAction = pendingDeleteID)

isLoadingOlderReportsFirstNeeded_AtThreshold ==
    checkIfContentSmallerThanList /\ Len(reportActions) >= OlderFirstThreshold

isLoadingOlderReportsFirstNeeded ==
    checkIfContentSmallerThanList /\ Len(reportActions) > OlderFirstThreshold

shouldPaginateNewer ==
    \/ /\ reportActionID # NoID
       /\ indexOfLinkedAction > -1
       /\ ~hasNewestReportAction
       /\ ~isLoadingOlderReportsFirstNeeded
    \/ /\ reportActionID = NoID
       /\ ~hasNewestReportAction
       /\ ~isLoadingOlderReportsFirstNeeded

paginationRequests_Always == fetchNewerAction

\* The requests of handleReportActionPagination: `if (!hasMoreCached)
\* fetchNewerAction(newestReportAction)`.
paginationRequests == IF ~hasMoreCached THEN fetchNewerAction ELSE << >>

\* handleReportActionPagination({firstReportActionID}): clears the
\* first-linked-render flag, fetches when nothing cached lies outside the
\* window, and sets the pointer; setting the pointer to its own value causes
\* no render, so the memos keep the values of the last render.
handleReportActionPagination(firstReportActionID) ==
    /\ currentReportActionID' = firstReportActionID
    /\ UNCHANGED <<propVars, isOffline, reportActionID, heightVars, lifeVars, screenVars>>
    /\ IF firstReportActionID # currentReportActionID
       THEN /\ StateRender(FALSE)
            /\ RunEffects(FALSE, paginationRequests)
       ELSE /\ isFirstLinkedActionRender' = FALSE
            /\ requests' = paginationRequests
            /\ UNCHANGED <<transactionThreadReport, firstAtRender, indexOfLinkedAction,
                           reportActions, hookVars>>

loadNewerChats_PassesOldest ==
    /\ listIsRendered
    /\ called' = "loadNewerChats"
    /\ UNCHANGED outerVars
    /\ IF ~loadNewerChatsGuard /\ shouldPaginateNewer
       THEN handleReportActionPagination(oldestReportAction)
       ELSE /\ requests' = << >>
            /\ UNCHANGED <<propVars, transactionThreadReport,
                           isOffline, reportActionID, currentReportActionID,
                           isFirstLinkedActionRender, firstAtRender, indexOfLinkedAction,
                           reportActions,
                           heightVars, lifeVars, screenVars, hookVars>>

loadNewerChats ==
    /\ listIsRendered
    /\ called' = "loadNewerChats"
    /\ UNCHANGED outerVars
    /\ IF ~loadNewerChatsGuard /\ shouldPaginateNewer
       THEN handleReportActionPagination(newestReportAction)
       ELSE /\ requests' = << >>
            /\ UNCHANGED <<propVars, transactionThreadReport,
                           isOffline, reportActionID, currentReportActionID,
                           isFirstLinkedActionRender, firstAtRender, indexOfLinkedAction,
                           reportActions,
                           heightVars, lifeVars, screenVars, hookVars>>

\* -------------------------------------------------------------------- Next
\* The steps of every specification: store emissions of the collections and
\* the loading flags, network and route changes, and the two pagination
\* callbacks.
ViewStep ==
    \/ \E S \in SUBSET PrimaryActionIDs : OnyxReportActions(S)
    \/ \E S \in SUBSET ThreadActionIDs : OnyxTransactionThreadReportActions(S)
    \/ SetIsLoadingInitialReportActions
    \/ SetIsLoadingOlderReportActions
    \/ SetIsLoadingNewerReportActions
    \/ NetworkGoesOffline
    \/ NetworkGoesOnline
    \/ \E id \in {NoID} \cup ActionIDs : Navigate(id)
    \/ loadOlderChats
    \/ loadNewerChats

\* The view of a report whose readiness for comment linking comes and goes.
\* The report's lastVisibleActionCreated is unset and no action is pending
\* deletion: both can only hold loadNewerChats back.  InteractionManager
\* stays busy, so no deferred work runs.
Init ==
    /\ InitView
    /\ lastVisibleActionCreated = 0

Next ==
    \/ ViewStep
    \/ SetIsReadyForCommentLinking

Spec == Init /\ [][Next]_vars

\* The view of a report that is ready for comment linking, with an action
\* that gets and loses pendingAction 'delete'.
InitDelete ==
    /\ InitView
    /\ isReadyForCommentLinking
    /\ lastVisibleActionCreated = 0

NextDelete ==
    \/ ViewStep
    \/ \E id \in {NoID} \cup DeletableIDs : OnyxPendingAction(id)

SpecDelete == InitDelete /\ [][NextDelete]_vars

\* The view of a report that is ready for comment linking and online, whose
\* lastVisibleActionCreated the store sets and unsets.
InitNewest ==
    /\ InitView
    /\ isReadyForCommentLinking
    /\ ~isOffline
    /\ lastVisibleActionCreated \in LastVisibleValues

NextNewest ==
    \/ \E S \in SUBSET PrimaryActionIDs : OnyxReportActions(S)
    \/ \E S \in SUBSET ThreadActionIDs : OnyxTransactionThreadReportActions(S)
    \/ \E lv \in LastVisibleValues : OnyxReport(lv)
    \/ SetIsLoadingInitialReportActions
    \/ SetIsLoadingNewerReportActions
    \/ \E id \in {NoID} \cup ActionIDs : Navigate(id)
    \/ loadNewerChats

SpecNewest == InitNewest /\ [][NextNewest]_vars

\* The report's own actions once older pages are loaded: around the
\* older-first threshold of loadNewerChats.
LoadedSets ==
    {(1..n) \ ThreadActionIDs : n \in OlderFirstThreshold..(OlderFirstThreshold + 2)}

\* The view of a long report without transaction thread actions, whose list
\* reports its content height.
InitViewport ==
    /\ InitView
    /\ transactionThreadReportActions = << >>
    /\ isReadyForCommentLinking
    /\ ~isOffline
    /\ ~isLoadingInitialReportActions
    /\ lastVisibleActionCreated = 0

NextViewport ==
    \/ \E S \in LoadedSets : OnyxReportActions(S)
    \/ \E h \in ContentHeights : onContentSizeChange(h)
    \/ \E id \in {NoID} \cup ActionIDs : Navigate(id)
    \/ loadNewerChats

SpecViewport == InitViewport /\ [][NextViewport]_vars

\* The view while the network, the focus of the screen and the report's
\* fetchability change.
InitNetwork ==
    /\ InitBusy
    /\ InitSignals
    /\ isReportFullyVisible \in BOOLEAN
    /\ reportIsFetchable \in BOOLEAN
    /\ isReadyForCommentLinking
    /\ ~isLoadingInitialReportActions
    /\ lastVisibleActionCreated = 0

NextNetwork ==
    \/ NetworkGoesOffline
    \/ NetworkGoesOnline
    \/ SetIsFocused
    \/ OnyxReportFetchable
    \/ \E S \in SUBSET PrimaryActionIDs : OnyxReportActions(S)
    \/ \E id \in {NoID} \cup ActionIDs : Navigate(id)

SpecNetwork == InitNetwork /\ [][NextNetwork]_vars

\* A freshly mounted view whose deferred settle of the navigating state runs.
InitNavigation ==
    /\ InitMount
    /\ InitSignals
    /\ isReportFullyVisible
    /\ reportIsFetchable
    /\ isReadyForCommentLinking
    /\ ~isOffline
    /\ ~isLoadingInitialReportActions
    /\ lastVisibleActionCreated \in LastVisibleValues

NextNavigation ==
    \/ \E S \in SUBSET PrimaryActionIDs : OnyxReportActions(S)
    \/ \E S \in SUBSET ThreadActionIDs : OnyxTransactionThreadReportActions(S)
    \/ \E id \in {NoID} \cup ActionIDs : Navigate(id)
    \/ loadNewerChats
    \/ RunSettleInteraction
    \/ SettleTimerFires
    \/ RunOrphanInteraction
    \/ OrphanTimerFires

SpecNavigation == InitNavigation /\ [][NextNavigation]_vars

\* A freshly mounted view, its deferred mount task, and its teardown.
InitMounted ==
    /\ InitMount
    /\ InitSignals
    /\ isReadyForCommentLinking
    /\ ~isOffline
    /\ lastVisibleActionCreated = 0

NextMounted ==
    \/ RunMountTask
    \/ Unmount
    \/ OnyxReportFetchable
    \/ SetIsLoadingInitialReportActions
    \/ \E S \in SUBSET PrimaryActionIDs : OnyxReportActions(S)
    \/ \E id \in {NoID} \cup ActionIDs : Navigate(id)

SpecMount == InitMounted /\ [][NextMounted]_vars

\* A freshly mounted view of a report that may still be being created, its
\* deferred tasks, and its teardown.
InitTyping ==
    /\ InitFreshMount
    /\ InitSignals
    /\ allReportActions = << >>
    /\ transactionThreadReportActions = << >>
    /\ reportActionID = NoID
    /\ isReadyForCommentLinking
    /\ ~isOffline
    /\ ~isLoadingInitialReportActions
    /\ lastVisibleActionCreated = 0

NextTyping ==
    \/ \E creating \in BOOLEAN : OnyxReportPendingFields(creating)
    \/ RunTypingTask
    \/ RunMountTask
    \/ Unmount
    \/ SetIsFocused
    \/ OnyxReportFetchable

SpecTyping == InitTyping /\ [][NextTyping]_vars

\* Reports whose CREATED action is not loaded: a short one, and long ones
\* around the limit of the gap-repair effect.
UnloadedSets ==
    {(1..n) \ ({1} \cup ThreadActionIDs) : n \in {MaxActions, GapRepairLimit + 1, GapRepairLimit + 2}}

\* The actions that can be the REPORTPREVIEW: the newest of such reports.
PreviewIDs == {MaxActions, GapRepairLimit + 1, GapRepairLimit + 2}

\* The view of a report without transaction thread actions, whose CREATED
\* action comes and goes, one of whose actions is a REPORTPREVIEW, and whose
\* fetches start and end.
InitGapRepair ==
    /\ InitView
    /\ isReadyForCommentLinking
    /\ transactionThreadReportActions = << >>
    /\ ~isOffline
    /\ lastVisibleActionCreated = 0

NextGapRepair ==
    \/ \E S \in UnloadedSets \cup (SUBSET PrimaryActionIDs) : OnyxReportActions(S)
    \/ \E id \in {NoID} \cup PreviewIDs : OnyxActionName(id)
    \/ SetIsLoadingInitialReportActions
    \/ SetIsLoadingOlderReportActions
    \/ SetIsLoadingNewerReportActions
    \/ SetIsReadyForCommentLinking

SpecGapRepair == InitGapRepair /\ [][NextGapRepair]_vars

\* ----------------------------------------------------- the other modules
\* A view on which nothing happens.
InitIdleView ==
    /\ InitView
    /\ allReportActions = << >>
    /\ transactionThreadReportActions = << >>
    /\ transactionThreadReport = NoThreadReport
    /\ reportActionID = NoID
    /\ isReadyForCommentLinking
    /\ ~isOffline
    /\ ~isLoadingInitialReportActions
    /\ lastVisibleActionCreated = 0

\* ------------------------------------------------------------ React.memo
\* arePropsEqual(oldProps, newProps); lodashIsEqual is deep equality.
arePropsEqual(old, new) ==
    IF old.isReadyForCommentLinking # new.isReadyForCommentLinking THEN FALSE
    ELSE IF old.reportActions # new.reportActions THEN FALSE
    ELSE IF old.transactionThreadReportActions # new.transactionThreadReportActions THEN FALSE
    ELSE IF old.parentReportAction # new.parentReportAction THEN FALSE
    ELSE IF old.authTokenType # new.authTokenType THEN FALSE
    ELSE IF old.isLoadingInitialReportActions # new.isLoadingInitialReportActions THEN FALSE
    ELSE IF old.isLoadingOlderReportActions # new.isLoadingOlderReportActions THEN FALSE
    ELSE IF old.isLoadingNewerReportActions # new.isLoadingNewerReportActions THEN FALSE
    ELSE old.report = new.report

\* The parent renders with another value of one prop: React.memo compares
\* the props with those of the last render and renders the component with
\* the new props unless arePropsEqual returns true.
ParentRenders(name, v) ==
    /\ v # newProps[name]
    /\ newProps' = [newProps EXCEPT ![name] = v]
    /\ propsAreEqual' = arePropsEqual(oldProps, newProps')
    /\ oldProps' = IF propsAreEqual' THEN oldProps ELSE newProps'
    /\ UNCHANGED <<viewVars, soundVars, textVars>>

InitPropsEqual == InitIdleView

NextPropsEqual == \E name \in PropNames : \E v \in PropValues[name] : ParentRenders(name, v)

SpecPropsEqual == InitPropsEqual /\ [][NextPropsEqual]_vars

\* ------------------------------------------------------- BaseTextInput
\* const inputValue = value ?? ''
inputValueOf(v) == IF v = NoValue THEN "" ELSE v

\* A render of BaseTextInput after the step and its effects: the prefix
\* padding of the input style, the label effect (deps [activateLabel,
\* deactivateLabel, hasValue, isFocused]) and the value effect (deps
\* [value]).  A render that throws runs no effect.  autoFilled is what
\* isInputAutoFilled(input.current) returns.
TextRender(autoFilled) ==
    LET inputValue == inputValueOf(value')
        hasValueNow == inputValue # "" \/ hasValueRef
        labelEffectRuns ==
            \/ value' # value
            \/ forceActiveLabel' # forceActiveLabel
            \/ prefixCharacter' # prefixCharacter
            \/ hasValueNow # hasValue
            \/ isFocused' # isFocused
        deactivated ==
            IF forceActiveLabel' \/ inputValue # "" \/ prefixCharacter' # ""
            THEN isLabelActive ELSE FALSE
    IN /\ hasValue' = hasValueNow
       /\ rendered' = IF prefixCharacter' # ""
                      THEN getCharacterPadding(prefixCharacter') ELSE NotCalled
       /\ IF rendered'.result = "threw"
          THEN UNCHANGED <<isLabelActive, hasValueRef>>
          ELSE /\ isLabelActive' =
                    IF ~labelEffectRuns THEN isLabelActive
                    ELSE IF hasValueNow \/ isFocused' \/ autoFilled THEN TRUE
                    ELSE deactivated
               /\ hasValueRef' =
                    IF value' # value /\ value' = "" THEN FALSE ELSE hasValueRef

\* The component is mounted: its last render did not throw.
textInputMounted == rendered.result # "threw"

\* The parent renders the input with another prefixCharacter.
SetPrefixCharacter(c) ==
    /\ textInputMounted
    /\ textCalled' = ""
    /\ c # prefixCharacter
    /\ prefixCharacter' = c
    /\ UNCHANGED <<forceActiveLabel, value, onFocusProp, onBlurProp, isFocused>>
    /\ propCalled' = << >>
    /\ thrown' = IF c # "" /\ getCharacterPadding(c).result = "threw"
                 THEN getCharacterPadding(c).message ELSE ""
    /\ \E autoFilled \in BOOLEAN : TextRender(autoFilled)
    /\ UNCHANGED <<viewVars, soundVars, memoVars>>

\* The parent renders the input with other props.
SetTextInputProps(force, v, hasOnFocus, hasOnBlur) ==
    /\ textInputMounted
    /\ textCalled' = ""
    /\ <<force, v, hasOnFocus, hasOnBlur>> # <<forceActiveLabel, value, onFocusProp, onBlurProp>>
    /\ forceActiveLabel' = force
    /\ value' = v
    /\ onFocusProp' = hasOnFocus
    /\ onBlurProp' = hasOnBlur
    /\ UNCHANGED <<prefixCharacter, isFocused>>
    /\ propCalled' = << >>
    /\ thrown' = ""
    /\ \E autoFilled \in BOOLEAN : TextRender(autoFilled)
    /\ UNCHANGED <<viewVars, soundVars, memoVars>>

\* The input gains focus: onFocus(event).  With inputProps.onFocus given the
\* handler calls itself, each call calling itself again, until the call
\* stack is exhausted; the RangeError leaves the handler before
\* setIsFocused(true).
onFocus ==
    /\ textInputMounted
    /\ textCalled' = "onFocus"
    /\ UNCHANGED <<prefixCharacter, forceActiveLabel, value, onFocusProp, onBlurProp>>
    /\ propCalled' = << >>
    /\ IF onFocusProp
       THEN /\ thrown' = "RangeError"
            /\ UNCHANGED <<isFocused, hasValueRef, hasValue, isLabelActive, rendered>>
       ELSE /\ thrown' = ""
            /\ isFocused' = TRUE
            /\ IF isFocused
               THEN UNCHANGED <<hasValueRef, hasValue, isLabelActive, rendered>>
               ELSE \E autoFilled \in BOOLEAN : TextRender(autoFilled)
    /\ UNCHANGED <<viewVars, soundVars, memoVars>>

\* The input loses focus: onBlur(event).
onBlur ==
    /\ textInputMounted
    /\ textCalled' = "onBlur"
    /\ UNCHANGED <<prefixCharacter, forceActiveLabel, value, onFocusProp, onBlurProp>>
    /\ propCalled' = IF onBlurProp THEN << "onBlur" >> ELSE << >>
    /\ thrown' = ""
    /\ isFocused' = FALSE
    /\ IF ~isFocused
       THEN UNCHANGED <<hasValueRef, hasValue, isLabelActive, rendered>>
       ELSE \E autoFilled \in BOOLEAN : TextRender(autoFilled)
    /\ UNCHANGED <<viewVars, soundVars, memoVars>>

\* The user edits the text: setValue(newValue).  It changes refs only, so
\* nothing renders.
setValue(newValue) ==
    /\ textInputMounted
    /\ textCalled' = "setValue"
    /\ propCalled' = << "onInputChange" >>
    /\ thrown' = ""
    /\ IF newValue # ""
       THEN /\ hasValueRef' = TRUE
            /\ isLabelActive' = IF value = NoValue THEN TRUE ELSE isLabelActive
       ELSE /\ hasValueRef' = FALSE
            /\ UNCHANGED isLabelActive
    /\ UNCHANGED <<prefixCharacter, forceActiveLabel, value, onFocusProp, onBlurProp,
                   isFocused, hasValue, rendered>>
    /\ UNCHANGED <<viewVars, soundVars, memoVars>>

\* A BaseTextInput whose props, focus and text change.
InitTextField == InitIdleView

NextTextField ==
    \/ \E c \in Prefixes : SetPrefixCharacter(c)
    \/ \E force \in BOOLEAN, v \in Values, hasOnFocus \in BOOLEAN, hasOnBlur \in BOOLEAN :
          SetTextInputProps(force, v, hasOnFocus, hasOnBlur)
    \/ onFocus
    \/ onBlur
    \/ \E newValue \in {"", "a"} : setValue(newValue)

SpecTextInput == InitTextField /\ [][NextTextField]_vars

\* --------------------------------------------------------------- Sound
\* processQueue() on the queue q.  `promises` are the promises so far and
\* `caller` the call whose promise executor is running, 0 when the timer
\* runs it; ok: nextFunc() returns, otherwise it throws and the exception
\* leaves processQueue.
processQueue(q, promises, caller, ok) ==
    IF Len(q) > 0
    THEN /\ queue' = Tail(q)
         /\ executed' = Append(executed, Head(q))
         /\ elapsed' = 0
         /\ IF ok
            THEN /\ promise' = [promises EXCEPT ![Head(q).call] = "resolved"]
                 /\ timerId' = 1
                 /\ timerPending' = TRUE
                 /\ timerLeft' = minExecutionTime
            ELSE /\ promise' = IF caller = 0 THEN promises
                               ELSE [promises EXCEPT ![caller] = "rejected"]
                 /\ timerPending' = FALSE
                 /\ UNCHANGED <<timerId, timerLeft>>
    ELSE /\ queue' = q
         /\ timerId' = 0
         /\ timerPending' = FALSE
         /\ promise' = promises
         /\ UNCHANGED <<executed, elapsed, timerLeft>>

\* A call of the wrapper: a new promise whose executor queues the call and,
\* if no timer is set, processes the queue.
playSound(soundFile, ok) ==
    /\ callsMade < MaxCalls
    /\ callsMade' = callsMade + 1
    /\ soundCalled' = "call"
    /\ LET q == Append(queue, [call |-> callsMade + 1, soundFile |-> soundFile])
           promises == [promise EXCEPT ![callsMade + 1] = "pending"]
       IN IF timerId = 0
          THEN processQueue(q, promises, callsMade + 1, ok)
          ELSE /\ queue' = q
               /\ promise' = promises
               /\ UNCHANGED <<timerId, timerPending, timerLeft, elapsed, executed>>
    /\ UNCHANGED <<viewVars, textVars, memoVars>>

\* The timeout fires, not before its delay has passed, and runs
\* processQueue.
TimerFires(ok) ==
    /\ timerPending
    /\ timerLeft = 0
    /\ soundCalled' = "timer"
    /\ processQueue(queue, promise, 0, ok)
    /\ UNCHANGED callsMade
    /\ UNCHANGED <<viewVars, textVars, memoVars>>

\* Time passes.
TimePasses(d) ==
    /\ elapsed' = Min(elapsed + d, minExecutionTime)
    /\ timerLeft' = Max(timerLeft - d, 0)
    /\ soundCalled' = ""
    /\ UNCHANGED <<queue, timerId, timerPending, callsMade, executed, promise>>
    /\ UNCHANGED <<viewVars, textVars, memoVars>>

\* The throttled function, called at any times, with a func that can throw.
InitSoundQueue == InitIdleView

NextSoundQueue ==
    \/ \E f \in SoundFiles, ok \in BOOLEAN : playSound(f, ok)
    \/ \E ok \in BOOLEAN : TimerFires(ok)
    \/ \E d \in TimeSteps : TimePasses(d)

SpecSound == InitSoundQueue /\ [][NextSoundQueue]_vars

\* The throttled function with a func that always returns.
NextSoundReturns ==
    \/ \E f \in SoundFiles : playSound(f, TRUE)
    \/ TimerFires(TRUE)
    \/ \E d \in TimeSteps : TimePasses(d)

SpecSoundReturns == InitSoundQueue /\ [][NextSoundReturns]_vars

\* The view while the session, the report's kind and the focus change.
InitAuth ==
    /\ InitBusy
    /\ ~isSmallScreenWidth
    /\ isReportFullyVisible \in BOOLEAN
    /\ reportIsFetchable \in BOOLEAN
    /\ allReportActions = << >>
    /\ transactionThreadReportActions = << >>
    /\ transactionThreadReport = NoThreadReport
    /\ isReadyForCommentLinking
    /\ ~isOffline
    /\ ~isLoadingInitialReportActions
    /\ lastVisibleActionCreated = 0

NextAuth ==
    \/ \E t \in AuthTokenTypes : OnyxSession(t)
    \/ SetDidUserLogInDuringSession
    \/ OnyxReportRoom
    \/ OnyxReportFetchable
    \/ SetIsFocused
    \/ \E id \in {NoID} \cup ActionIDs : Navigate(id)

SpecAuth == InitAuth /\ [][NextAuth]_vars

\* The view while the layout, the focus and the report's fetchability change.
InitLayout ==
    /\ InitBusy
    /\ authTokenType = NoAuthTokenType
    /\ ~isUserCreatedPolicyRoom
    /\ isReportFullyVisible \in BOOLEAN
    /\ reportIsFetchable \in BOOLEAN
    /\ transactionThreadReportActions = << >>
    /\ transactionThreadReport = NoThreadReport
    /\ isReadyForCommentLinking
    /\ ~isOffline
    /\ ~isLoadingInitialReportActions
    /\ lastVisibleActionCreated = 0

NextLayout ==
    \/ SetIsSmallScreenWidth
    \/ SetIsFocused
    \/ OnyxReportFetchable
    \/ \E S \in SUBSET PrimaryActionIDs : OnyxReportActions(S)
    \/ \E id \in {NoID} \cup ActionIDs : Navigate(id)

SpecLayout == InitLayout /\ [][NextLayout]_vars

\* Two mounted views that share listOldID.
InitListID ==
    /\ InitBusy
    /\ InitSignals
    /\ isReportFullyVisible = TRUE
    /\ reportIsFetchable = TRUE
    /\ transactionThreadReportActions = << >>
    /\ transactionThreadReport = NoThreadReport
    /\ isReadyForCommentLinking
    /\ ~isOffline
    /\ lastVisibleActionCreated = 0

NextListID ==
    \/ SetIsLoadingInitialReportActions
    \/ \E id \in {NoID} \cup ActionIDs : Navigate(id)
    \/ \E S \in SUBSET PrimaryActionIDs : OnyxReportActions(S)
    \/ OtherInstanceListID

SpecListID == InitListID /\ [][NextListID]_vars

\* ================================================================== claims
\* Vocabulary of the claims, on the state.
hasDeepLink == reportActionID # NoID

screenReady == isReadyForCommentLinking /\ ~isLoadingInitialReportActions

\* 1-based position of id in the combined sequence, 0 if absent.
PositionInCombined(id) ==
    IF \E i \in 1..Len(combinedReportActions) : combinedReportActions[i] = id
    THEN CHOOSE i \in 1..Len(combinedReportActions) : combinedReportActions[i] = id
    ELSE 0

\* The window is the last n entries of the combined sequence, in order.
WindowIsSuffixOfLength(n) ==
    /\ Len(reportActions) = n
    /\ n <= Len(combinedReportActions)
    /\ \A i \in 1..n :
          reportActions[i] = combinedReportActions[Len(combinedReportActions) - n + i]

\* The window is the first n entries of the combined sequence, in order.
WindowIsPrefixOfLength(n) ==
    /\ Len(reportActions) = n
    /\ n <= Len(combinedReportActions)
    /\ \A i \in 1..n : reportActions[i] = combinedReportActions[i]

firstRenderCase ==
    /\ hasDeepLink
    /\ screenReady
    /\ isFirstLinkedActionRender
    /\ PositionInCombined(reportActionID) > 0

\* C1 (as stated): on the first linked render with the screen ready and the
\* target in the combined sequence, the window is the part of the combined
\* sequence from the target to the newest entry, and holds no entry older than
\* the target.
C1_TargetToNewest ==
    firstRenderCase =>
        /\ WindowIsPrefixOfLength(PositionInCombined(reportActionID))
        /\ \A i \in 1..Len(reportActions) :
              Created(reportActions[i]) >= Created(reportActionID)

\* C1 (amended): in that case the window is the part of the combined sequence
\* from the target to the oldest entry: it starts with the target, is the whole
\* suffix from the target's position, and holds no entry newer than the target.
C1_TargetToOldest ==
    firstRenderCase =>
        /\ WindowIsSuffixOfLength(Len(combinedReportActions) - PositionInCombined(reportActionID) + 1)
        /\ reportActions[1] = reportActionID
        /\ \A i \in 1..Len(reportActions) :
              Created(reportActions[i]) <= Created(reportActionID)

\* A first linked render whose target is neither the newest nor the oldest
\* entry of the combined sequence.
C1_Witness ==
    /\ firstRenderCase
    /\ PositionInCombined(reportActionID) > 1
    /\ PositionInCombined(reportActionID) < Len(combinedReportActions)
    /\ reportActions[1] = reportActionID

subsequentRenderCase ==
    /\ hasDeepLink
    /\ screenReady
    /\ ~isFirstLinkedActionRender
    /\ PositionInCombined(currentReportActionID) > 0

\* 0-based index of the pointer, as in the code.
pointerIndex == PositionInCombined(currentReportActionID) - 1

expectedStart == IF pointerIndex - getInitialPaginationSize > 0
                 THEN pointerIndex - getInitialPaginationSize ELSE 0

\* C2: a render with a deep-link target, the screen ready, the
\* first-linked-render flag false and the pointer found at index i of the
\* combined sequence yields the suffix of the combined sequence that starts at
\* index max(0, i - pageBudget).
C2_SubsequentRenderWindow ==
    (subsequentRenderCase /\ ~firstAtRender) =>
        WindowIsSuffixOfLength(Len(combinedReportActions) - expectedStart)

\* After a pagination: the pointer is far enough from the start that the
\* window begins pageBudget entries before it and leaves an entry out.
C2_Witness ==
    /\ subsequentRenderCase
    /\ ~firstAtRender
    /\ called = "loadNewerChats"
    /\ pointerIndex - getInitialPaginationSize > 0
    /\ WindowIsSuffixOfLength(Len(combinedReportActions) - expectedStart)

\* C3: with no deep-link target the window is the whole combined sequence,
\* whatever the loading and readiness flags are.
C3_NoLinkWholeSequence ==
    ~hasDeepLink => reportActions = combinedReportActions

\* No target, the screen not ready, and several entries shown.
C3_Witness ==
    /\ ~hasDeepLink
    /\ ~screenReady
    /\ Len(reportActions) >= 2
    /\ Len(reportActions) = Len(combinedReportActions)

\* The identifier the window is anchored at.
searchAnchor == IF isFirstLinkedActionRender THEN reportActionID ELSE currentReportActionID

\* C4: with a deep-link target the window is empty whenever the screen is
\* not ready or the search anchor is not in the combined sequence.
C4_EmptyWhenNotReadyOrNotFound ==
    (hasDeepLink /\ (~screenReady \/ PositionInCombined(searchAnchor) = 0))
        => reportActions = << >>

\* The screen is not ready although the target is among several combined
\* entries, or the screen is ready and the pointer has left the sequence.
C4_Witness ==
    /\ hasDeepLink
    /\ reportActions = << >>
    /\ Len(combinedReportActions) >= 2
    /\ \/ ~isReadyForCommentLinking /\ PositionInCombined(searchAnchor) > 0
       \/ /\ screenReady
          /\ ~isFirstLinkedActionRender
          /\ currentReportActionID # NoID
          /\ PositionInCombined(currentReportActionID) = 0

\* C5: in every reachable state the window is a contiguous suffix of the
\* combined sequence, so it is never longer than the combined sequence.
C5_WindowIsSuffix ==
    \E n \in 0..Len(combinedReportActions) : WindowIsSuffixOfLength(n)

\* A pagination has moved the window to a proper, non-empty suffix.
C5_Witness ==
    /\ hasDeepLink
    /\ called = "loadNewerChats"
    /\ ~isFirstLinkedActionRender
    /\ Len(reportActions) > 0
    /\ Len(reportActions) < Len(combinedReportActions)

\* The window's oldest entry is the CREATED action.
oldestIsCreated ==
    Len(reportActions) > 0 /\ ActionName(reportActions[Len(reportActions)]) = "CREATED"

threadAttached == transactionThreadReport.reportID # ""

\* C6: loadOlderChats issues no request when the window's oldest entry is
\* the CREATED action.  (loadOlderChats changes nothing but the request log,
\* so the state after the call shows the window and flags of the call.)
C6_NoOlderFetchAtCreated ==
    (called = "loadOlderChats" /\ oldestIsCreated) => requests = << >>

\* loadOlderChats ran online with no load in flight and the CREATED action
\* the oldest entry.
C6_Witness ==
    /\ called = "loadOlderChats"
    /\ oldestIsCreated
    /\ ~isOffline
    /\ ~isLoadingOlderReportActions
    /\ ~isLoadingInitialReportActions
    /\ requests = << >>

\* C7: loadOlderChats called while offline issues no request.
C7_NoOlderFetchOffline ==
    (called = "loadOlderChats" /\ isOffline) => requests = << >>

\* loadOlderChats ran offline with every other guard passing.
C7_Witness ==
    /\ called = "loadOlderChats"
    /\ isOffline
    /\ ~isLoadingOlderReportActions
    /\ ~isLoadingInitialReportActions
    /\ ~oldestIsCreated
    /\ requests = << >>

\* The oldest window entry that belongs to the report (primary = TRUE) or to
\* the transaction thread report (primary = FALSE), NoID if there is none.
OldestWindowEntryOf(primary) ==
    LET mine == {i \in 1..Len(reportActions) :
                    (reportActions[i] \in Range(allReportActions)) = primary}
    IN IF mine = {} THEN NoID
       ELSE reportActions[CHOOSE i \in mine : \A j \in mine : j <= i]

olderGuardsPass ==
    /\ ~isOffline
    /\ ~isLoadingOlderReportActions
    /\ ~isLoadingInitialReportActions
    /\ Len(reportActions) > 0
    /\ ~oldestIsCreated

\* C8: with a transaction thread report attached and all guards passing,
\* loadOlderChats issues exactly two older-page requests (getOlderActions),
\* one per report, each anchored at the oldest window entry of that report.
C8_TwoOlderRequests ==
    (called = "loadOlderChats" /\ threadAttached /\ olderGuardsPass
        /\ OldestWindowEntryOf(TRUE) # NoID /\ OldestWindowEntryOf(FALSE) # NoID)
    => /\ Len(requests) = 2
       /\ requests[1] = Request("loadOlderChats", "getOlderActions", ReportID,
                                OldestWindowEntryOf(TRUE))
       /\ requests[2] = Request("loadOlderChats", "getOlderActions",
                                transactionThreadReport.reportID, OldestWindowEntryOf(FALSE))

\* C9: no older-page request is issued while isLoadingOlderReportActions is
\* true, and no newer-page request (getNewerActions) while
\* isLoadingNewerReportActions is true.  (Neither callback changes the flags.)
C9_SingleFlight ==
    \A i \in 1..Len(requests) :
        /\ requests[i].fn = "getOlderActions" => ~isLoadingOlderReportActions
        /\ requests[i].fn = "getNewerActions" => ~isLoadingNewerReportActions

newestIsPendingDelete ==
    Len(reportActions) > 0 /\ reportActions[1] = pendingDeleteID

\* C10 (as stated): loadNewerChats issues no request and leaves the pointer
\* and the first-linked-render flag unchanged whenever an initial, older or
\* newer fetch is in flight, the network is offline, or the newest held
\* action is pending deletion.
C10_NoOpWhileAnyFetch ==
    [][(called' = "loadNewerChats"
          /\ (\/ isLoadingInitialReportActions
              \/ isLoadingOlderReportActions
              \/ isLoadingNewerReportActions
              \/ isOffline
              \/ newestIsPendingDelete))
        => /\ requests' = << >>
           /\ UNCHANGED <<currentReportActionID, isFirstLinkedActionRender>>]_vars

\* C10 (amended): in all those cases loadNewerChats issues no request; it
\* leaves the pointer and the flag unchanged when an initial or older fetch is
\* in flight, the network is offline, or the newest held action is pending
\* deletion.
C10_NoRequestAndGuardedNoOp ==
    [][called' = "loadNewerChats"
        => /\ (\/ isLoadingInitialReportActions
               \/ isLoadingOlderReportActions
               \/ isLoadingNewerReportActions
               \/ isOffline
               \/ newestIsPendingDelete) => requests' = << >>
           /\ (\/ isLoadingInitialReportActions
               \/ isLoadingOlderReportActions
               \/ isOffline
               \/ newestIsPendingDelete)
                 => UNCHANGED <<currentReportActionID, isFirstLinkedActionRender,
                                reportActions>>]_vars

\* loadNewerChats ran with the newest held action pending deletion and every
\* other guard passing, on a window that has not reached the newest action:
\* the pointer was not advanced to the newest entry.
C10_Witness ==
    /\ called = "loadNewerChats"
    /\ newestIsPendingDelete
    /\ ~isLoadingInitialReportActions
    /\ ~isLoadingOlderReportActions
    /\ ~isLoadingNewerReportActions
    /\ ~isOffline
    /\ ~hasDeepLink
    /\ ~hasNewestReportAction
    /\ currentReportActionID # reportActions[1]
    /\ requests = << >>

\* The requests the last step issued on behalf of one handler or effect.
RequestsBy(by) == SelectSeq(requests, LAMBDA r : r.by = by)

\* The created timestamp of the window's newest entry equals the report's
\* lastVisibleActionCreated or the transaction thread report's.
newestMatchesLastVisible ==
    /\ Len(reportActions) > 0
    /\ \/ Created(reportActions[1]) = lastVisibleActionCreated
       \/ (threadAttached
           /\ Created(reportActions[1]) = transactionThreadReport.lastVisibleActionCreated)

\* C11: loadNewerChats issues no request and does not advance the current
\* pointer if the created timestamp of the window's newest entry equals the
\* report's lastVisibleActionCreated, or the transaction thread report's.
C11_NoNewerFetchAtNewest ==
    [][(called' = "loadNewerChats" /\ newestMatchesLastVisible)
        => /\ requests' = << >>
           /\ UNCHANGED currentReportActionID]_vars

\* loadNewerChats ran with every guard passing and the pointer behind the
\* window's newest entry, whose timestamp is the report's
\* lastVisibleActionCreated: the pointer stayed where it was.
C11_Witness ==
    /\ called = "loadNewerChats"
    /\ Len(reportActions) > 0
    /\ Created(reportActions[1]) = lastVisibleActionCreated
    /\ ~threadAttached
    /\ ~isLoadingInitialReportActions
    /\ ~isLoadingNewerReportActions
    /\ currentReportActionID # reportActions[1]
    /\ requests = << >>

\* C12: when all guards pass, no transaction thread report is attached, the
\* window is non-empty and its oldest entry is not CREATED, loadOlderChats
\* issues exactly one request, getOlderActions(reportID, identifier of the
\* window's oldest entry), and no other.
C12_OneOlderRequest ==
    (called = "loadOlderChats" /\ ~threadAttached /\ olderGuardsPass)
    => requests = << Request("loadOlderChats", "getOlderActions", ReportID,
                             reportActions[Len(reportActions)]) >>

\* loadOlderChats ran without a thread report on a window of several entries
\* that stops short of the CREATED action, and asked for the page before the
\* oldest one.
C12_Witness ==
    /\ called = "loadOlderChats"
    /\ ~threadAttached
    /\ olderGuardsPass
    /\ Len(reportActions) >= 2
    /\ Len(requests) = 1
    /\ requests[1].fn = "getOlderActions"
    /\ requests[1].reportActionID = reportActions[Len(reportActions)]

\* The newest window entry that belongs to the report (primary = TRUE) or to
\* the transaction thread report (primary = FALSE), NoID if there is none.
NewestWindowEntryOf(primary) ==
    LET mine == {i \in 1..Len(reportActions) :
                    (reportActions[i] \in Range(allReportActions)) = primary}
    IN IF mine = {} THEN NoID
       ELSE reportActions[CHOOSE i \in mine : \A j \in mine : i <= j]

newerFetchTriggered == called = "loadNewerChats" /\ requests # << >>

NewerRequestFor(rid, primary) ==
    IF NewestWindowEntryOf(primary) = NoID
    THEN Request("loadNewerChats", "getNewerActions", "0", NoID)
    ELSE Request("loadNewerChats", "getNewerActions", rid, NewestWindowEntryOf(primary))

newerGuardsPass ==
    /\ Len(reportActions) > 0
    /\ ~isLoadingInitialReportActions
    /\ ~isLoadingOlderReportActions
    /\ ~isOffline
    /\ ~newestIsPendingDelete
    /\ ~newestMatchesLastVisible
    /\ ~(windowHeight - DIFF_BETWEEN_SCREEN_HEIGHT_AND_LIST - SPACER > contentListHeight
         /\ Len(reportActions) > OlderFirstThreshold)
    /\ (hasDeepLink => indexOfLinkedAction > -1)

windowHoldsAll == Len(reportActions) = Len(combinedReportActions)

\* C14: when loadNewerChats proceeds past its guards and no newer fetch is in
\* flight, a newer-page request is issued exactly when the window holds the
\* whole combined sequence; when cached entries remain outside the window,
\* the pointer advances (it is set to the window's newest entry) and no
\* request is issued.  (With a newer fetch in flight no request is issued
\* either way.)
C14_RequestIffWindowHoldsAll ==
    [][(called' = "loadNewerChats" /\ newerGuardsPass)
        => /\ (requests' # << >>) <=> (windowHoldsAll /\ ~isLoadingNewerReportActions)
           /\ ~windowHoldsAll => currentReportActionID' = reportActions[1]]_vars

\* loadNewerChats ran on a window that left cached entries out: the pointer
\* moved to an entry that is not the newest of the combined sequence and no
\* request was issued.
C14_Witness ==
    /\ called = "loadNewerChats"
    /\ hasDeepLink
    /\ ~isLoadingInitialReportActions
    /\ ~isLoadingOlderReportActions
    /\ ~isLoadingNewerReportActions
    /\ ~isOffline
    /\ ~firstAtRender
    /\ PositionInCombined(currentReportActionID) > 1
    /\ requests = << >>

\* The rendered content is shorter than the viewport.
contentShorterThanViewport ==
    windowHeight - DIFF_BETWEEN_SCREEN_HEIGHT_AND_LIST - SPACER > contentListHeight

olderFirstApplies ==
    contentShorterThanViewport /\ Len(reportActions) > OlderFirstThreshold

backOnline == isOffline /\ ~isOffline'

\* C16 (as stated): when the network goes from offline to online while the
\* screen is fully visible, the network reaction issues exactly one openReport
\* call and zero reconnect calls for that transition, and issues nothing
\* again on later renders until the next offline-to-online transition.
C16_OneOpenReportOnReconnect ==
    [][/\ (backOnline /\ isReportFullyVisible')
            => RequestsBy("networkEffect")' =
                 << Request("networkEffect", "openReport", ReportID, reportActionID') >>
       /\ ~backOnline => RequestsBy("networkEffect")' = << >>]_vars

\* C16 (amended): in that case the network reaction issues exactly one
\* openReport call if shouldFetchReport(report) holds and none otherwise, and
\* zero reconnect calls; it issues nothing again on later renders until the
\* next offline-to-online transition.
C16_OneOpenReportIfFetchable ==
    [][/\ (backOnline /\ isReportFullyVisible')
            => RequestsBy("networkEffect")' =
                 IF reportIsFetchable'
                 THEN << Request("networkEffect", "openReport", ReportID, reportActionID') >>
                 ELSE << >>
       /\ ~backOnline => RequestsBy("networkEffect")' = << >>]_vars

\* The network has just come back with the screen fully visible and the
\* report fetchable: one openReport, on a route with a deep-link target.
C16_Witness ==
    /\ ~isOffline
    /\ isReportFullyVisible
    /\ reportIsFetchable
    /\ hasDeepLink
    /\ requests = << Request("networkEffect", "openReport", ReportID, reportActionID) >>

\* C17 (as stated): when the network goes from offline to online while the
\* screen is not fully visible, the network reaction issues a reconnect call
\* and never an openReport call.
C17_ReconnectWhenNotVisible ==
    [][(backOnline /\ ~isReportFullyVisible')
        => RequestsBy("networkEffect")' =
             << Request("networkEffect", "reconnect", ReportID, NoID) >>]_vars

\* C17 (amended): in that case the network reaction issues a reconnect call
\* if shouldFetchReport(report) holds and nothing otherwise, and never an
\* openReport call.
C17_ReconnectIfFetchable ==
    [][(backOnline /\ ~isReportFullyVisible')
        => RequestsBy("networkEffect")' =
             IF reportIsFetchable'
             THEN << Request("networkEffect", "reconnect", ReportID, NoID) >>
             ELSE << >>]_vars

\* The network has just come back with the screen not fully visible and the
\* report fetchable: one reconnect.
C17_Witness ==
    /\ ~isOffline
    /\ ~isReportFullyVisible
    /\ reportIsFetchable
    /\ requests = << Request("networkEffect", "reconnect", ReportID, NoID) >>

\* C18: auto-scroll-to-top is enabled only if there is no deep-link target or
\* the navigating state is settled (isNavigatingToLinkedMessage false); it is
\* never enabled while a deep-link target exists and the state is navigating.
C18_AutoScrollOnlySettledOrNoLink ==
    (listIsRendered /\ shouldEnableAutoScroll)
        => (~hasDeepLink \/ ~isNavigatingToLinkedMessage)

\* Auto-scroll is enabled on a deep-linked list whose navigating state has
\* settled.
C18_Witness ==
    /\ listIsRendered
    /\ shouldEnableAutoScroll
    /\ hasDeepLink
    /\ ~isNavigatingToLinkedMessage

\* The step is a navigation event: the mount or a route change.
isNavigationEvent == called \in {"mount", "Navigate"}

\* C19: with a deep-link target present, the deep-link reaction issues
\* openReport(reportID, reportActionID) exactly once per navigation event
\* (mount or route change), and issues nothing on a re-render in which the
\* route is unchanged.
C19_LinkFetchOncePerNavigation ==
    /\ (isNavigationEvent /\ hasDeepLink)
         => RequestsBy("linkEffect") =
              << Request("linkEffect", "openReport", ReportID, reportActionID) >>
    /\ ~isNavigationEvent => RequestsBy("linkEffect") = << >>

\* A route change to a deep-link target has issued the one anchored fetch.
C19_Witness ==
    /\ called = "Navigate"
    /\ hasDeepLink
    /\ RequestsBy("linkEffect") =
         << Request("linkEffect", "openReport", ReportID, reportActionID) >>

\* The mount effect's deferred task is scheduled and has not run.
mountTaskPending == mountTask \in {"open", "skip"}

\* C20: with no deep-link target, mounting schedules the full re-fetch to run
\* after pending interactions and issues nothing yet; the mount reaction
\* issues openReport at most once per mount (only when the pending task runs,
\* after which it is never pending again), and never once the component is
\* torn down.
C20_MountFetchOnceCancellable ==
    /\ []((called = "mount" /\ ~hasDeepLink)
            => (mountTaskPending /\ RequestsBy("mountEffect") = << >>))
    /\ [](~mounted => ~mountTaskPending)
    /\ [][/\ RequestsBy("mountEffect")' # << >>
             => /\ mountTaskPending
                /\ mounted
                /\ mountTask' = "done"
                /\ requests' = << Request("mountEffect", "openReport", ReportID, NoID) >>
          /\ ~mountTaskPending => mountTask' = mountTask
          /\ ~mounted => RequestsBy("mountEffect")' = << >>]_vars

\* The deferred task of a mount has run and issued the full re-fetch.
C20_Witness ==
    /\ mounted
    /\ mountTask = "done"
    /\ requests = << Request("mountEffect", "openReport", ReportID, NoID) >>

\* The step takes the session from anonymous to authenticated, the user
\* logged in during the session, and the report is a user-created room.
loginDetected ==
    /\ authTokenType = ANONYMOUS
    /\ authTokenType' = NoAuthTokenType
    /\ didUserLogInDuringSession'
    /\ isUserCreatedPolicyRoom'

\* C21 (as stated): when the auth state goes from anonymous to authenticated
\* during the active session and the report is a user-created room, the auth
\* reaction issues openReport if the screen is fully visible and reconnect
\* otherwise; if any of those conditions fails it issues neither.
C21_AuthOpenOrReconnect ==
    [][/\ loginDetected
            => RequestsBy("authEffect")' =
                 IF isReportFullyVisible'
                 THEN << Request("authEffect", "openReport", ReportID, reportActionID') >>
                 ELSE << Request("authEffect", "reconnect", ReportID, NoID) >>
       /\ ~loginDetected => RequestsBy("authEffect")' = << >>]_vars

\* C21 (amended): in that case the auth reaction issues openReport if the
\* screen is fully visible and reconnect otherwise, provided
\* shouldFetchReport(report) holds, and nothing if it does not; if any of
\* the conditions fails it issues neither.
C21_AuthOpenOrReconnectIfFetchable ==
    [][/\ (loginDetected /\ reportIsFetchable')
            => RequestsBy("authEffect")' =
                 IF isReportFullyVisible'
                 THEN << Request("authEffect", "openReport", ReportID, reportActionID') >>
                 ELSE << Request("authEffect", "reconnect", ReportID, NoID) >>
       /\ ~(loginDetected /\ reportIsFetchable') => RequestsBy("authEffect")' = << >>]_vars

\* The user of a user-created room has just logged in on a screen that is
\* not fully visible: one reconnect.
C21_Witness ==
    /\ authTokenType = NoAuthTokenType
    /\ didUserLogInDuringSession
    /\ isUserCreatedPolicyRoom
    /\ ~isReportFullyVisible
    /\ requests = << Request("authEffect", "reconnect", ReportID, NoID) >>

\* The step takes the layout from narrow to wide.
viewportWidened == isSmallScreenWidth /\ ~isSmallScreenWidth'

\* C22 (as stated): when the viewport goes from narrow to wide while the
\* screen is fully visible, the viewport reaction triggers the full re-fetch
\* (openReport); it triggers nothing when the viewport does not widen or the
\* screen is not fully visible at that moment.
C22_OpenReportOnWiden ==
    [][/\ (viewportWidened /\ isReportFullyVisible')
            => RequestsBy("viewportEffect")' =
                 << Request("viewportEffect", "openReport", ReportID, reportActionID') >>
       /\ ~(viewportWidened /\ isReportFullyVisible')
            => RequestsBy("viewportEffect")' = << >>]_vars

\* C22 (amended): in that case the viewport reaction triggers openReport if
\* shouldFetchReport(report) holds and nothing otherwise; it triggers nothing
\* when the viewport does not widen or the screen is not fully visible at
\* that moment.
C22_OpenReportOnWidenIfFetchable ==
    [][/\ (viewportWidened /\ isReportFullyVisible' /\ reportIsFetchable')
            => RequestsBy("viewportEffect")' =
                 << Request("viewportEffect", "openReport", ReportID, reportActionID') >>
       /\ ~(viewportWidened /\ isReportFullyVisible' /\ reportIsFetchable')
            => RequestsBy("viewportEffect")' = << >>]_vars

\* The layout has just widened on a fully visible screen: one openReport.
C22_Witness ==
    /\ ~isSmallScreenWidth
    /\ isReportFullyVisible
    /\ requests = << Request("viewportEffect", "openReport", ReportID, reportActionID) >>

\* The step changes the route or the initial-loading flag of this view.
routeOrLoadingChanged ==
    \/ called' = "Navigate"
    \/ isLoadingInitialReportActions' # isLoadingInitialReportActions

\* C23: a fresh list instance identifier is assigned whenever the route or the
\* initial-loading flag changes: the new listID differs from this view's
\* previous listID, also when another mounted view shares the module-level
\* listOldID and regenerates in between; listID is unchanged across steps
\* where neither input changes.
C23_FreshListID ==
    [][/\ routeOrLoadingChanged => listID' # listID
       /\ ~routeOrLoadingChanged => listID' = listID]_vars

\* The step runs the underlying function.
funcExecutes == Len(executed') > Len(executed)

\* C24: any two consecutive executions of the underlying function are at
\* least minExecutionTime apart, however frequently and at whatever times the
\* wrapper is called.
C24_MinimalSpacing ==
    [][funcExecutes => (executed = << >> \/ elapsed >= minExecutionTime)]_vars

\* The calls made so far, by number.
CallsMade == 1..callsMade

\* The calls in a sequence of queue entries, in order.
CallsOf(entries) == [i \in 1..Len(entries) |-> entries[i].call]

\* C25: every call is executed exactly once, in the order the calls were made:
\* the executed calls and then the queued ones are the calls made, in order;
\* every queued call is eventually executed: while a call is queued a
\* timeout is scheduled that will run the queue; each call's promise is
\* resolved when its own execution has happened and not before; and a call
\* made while no timer is running executes in the same step.
C25_FifoOncePromiseAtExecution ==
    /\ [](CallsOf(executed) \o CallsOf(queue) = [i \in 1..callsMade |-> i])
    /\ [](queue # << >> => timerPending)
    /\ [](\A c \in CallsMade :
            promise[c] = IF c \in Range(CallsOf(executed)) THEN "resolved" ELSE "pending")
    /\ [][(soundCalled' = "call" /\ ~timerPending)
            => CallsOf(executed') = Append(CallsOf(executed), callsMade')]_vars

\* C26: getCharacterPadding raises an Error for every prefix character other
\* than the policy-room prefix, never returning a default, and returns 10
\* for the policy-room prefix: a render of the input with a prefix ends in
\* the Error naming that prefix, or with the padding 10 for the room prefix.
C26_CharacterPadding ==
    /\ prefixCharacter = ROOM_PREFIX =>
         rendered.result = "returned" /\ rendered.value = 10
    /\ prefixCharacter \notin {"", ROOM_PREFIX} =>
         /\ rendered.result = "threw"
         /\ rendered.message = "Prefix " \o prefixCharacter \o " has no padding assigned."
         /\ thrown = rendered.message

\* A focused input with a value was rendered with the prefix "@" and the
\* render threw.
C26_Witness ==
    /\ prefixCharacter = "@"
    /\ rendered.result = "threw"
    /\ isFocused
    /\ value = "a"

\* C27: the deferred transition to Settled is cancelled when its condition
\* changes again or the component is torn down before it fires: no timer of
\* a superseded activation of the navigating effect ever fires its
\* setNavigatingToLinkedMessage(false).
C27_NoStaleSettle == [][~(orphanTimer /\ ~orphanTimer')]_vars

\* C28: the navigation state machine.  At mount the state is Navigating iff
\* a deep-link target was supplied (or the window's newest entry already
\* equals the target); while the identifier of the window's newest entry
\* equals the deep-link target the state is Navigating; and the state
\* becomes Settled only when the timer of the scheduled delay fires while
\* they differ.
C28_NavigationStateMachine ==
    /\ [](called = "mount" =>
            (isNavigatingToLinkedMessage <=>
               (reportActionID # NoID \/ isTheFirstReportActionIsLinked)))
    /\ [](mounted /\ isTheFirstReportActionIsLinked => isNavigatingToLinkedMessage)
    /\ [][isNavigatingToLinkedMessage /\ ~isNavigatingToLinkedMessage' =>
            /\ ~isTheFirstReportActionIsLinked
            /\ \/ settleTask = "timer" /\ settleTask' = "none"
               \/ orphanTimer /\ ~orphanTimer']_vars

\* C29: when loadNewerChats passes its guards, the window has not reached the
\* newest known action, the older-first suppression does not apply and the
\* deep-link target (if any) is in the window, then afterwards the current
\* pointer is the identifier of the window's newest entry and the
\* first-linked-render flag is false, whether or not a request was issued.
C29_PointerAdvancesToNewest ==
    [][(called' = "loadNewerChats" /\ ~loadNewerChatsGuard /\ shouldPaginateNewer)
        => /\ currentReportActionID' = newestReportAction
           /\ ~isFirstLinkedActionRender']_vars

\* loadNewerChats advanced the pointer without a request (newer actions were
\* cached outside the window): the window has grown past the pointer.
C29_Witness ==
    /\ called = "loadNewerChats"
    /\ requests = << >>
    /\ ~isFirstLinkedActionRender
    /\ currentReportActionID # NoID
    /\ currentReportActionID \in Range(reportActions)
    /\ reportActions[1] # currentReportActionID
    /\ ~isLoadingInitialReportActions
    /\ ~loadNewerChatsGuard

\* C30: on every route change the current pointer is reset to the empty
\* identifier and the first-linked-render flag to true, so the window of the
\* render after a navigation is anchored at the new deep-link target (its
\* newest entry is the target), never at a pointer of the previous route.
C30_RouteChangeResets ==
    [][called' = "Navigate"
        => /\ currentReportActionID' = NoID
           /\ isFirstLinkedActionRender'
           /\ (reportActionID' # NoID /\ reportActions' # << >>)
                => newestReportAction' = reportActionID']_vars

\* A navigation to a target that is not the newest cached action: the window
\* starts at the target, the pointer is empty and the flag is set.
C30_Witness ==
    /\ called = "Navigate"
    /\ reportActionID # NoID
    /\ reportActions # << >>
    /\ newestReportAction = reportActionID
    /\ hasMoreCached
    /\ currentReportActionID = NoID
    /\ isFirstLinkedActionRender

\* C31: the gap-repair effect issues openReport only when the window's
\* newest entry is a REPORTPREVIEW action, its oldest entry is not CREATED,
\* the report is ready for comment linking, the window holds between 1 and
\* 23 entries and no initial, older or newer fetch is in flight.
C31_GapRepairOnlyWhenIdle ==
    \A i \in 1..Len(requests) :
        requests[i].by = "gapRepairEffect" =>
            /\ requests[i].fn = "openReport"
            /\ Len(reportActions) >= 1
            /\ Len(reportActions) <= 23
            /\ reportActions[1] = reportPreviewID
            /\ ActionName(reportActions[Len(reportActions)]) # "CREATED"
            /\ isReadyForCommentLinking
            /\ ~isLoadingInitialReportActions
            /\ ~isLoadingOlderReportActions
            /\ ~isLoadingNewerReportActions

\* The effect has issued openReport for a window of 23 entries whose newest
\* entry is the REPORTPREVIEW.
C31_Witness ==
    /\ Len(requests) = 1
    /\ requests[1].by = "gapRepairEffect"
    /\ Len(reportActions) = 23
    /\ reportActions[1] = reportPreviewID

\* C32: once pagination has cleared the first-linked-render flag, the flag
\* stays false until the route changes: no other step, such as a change of
\* isLoadingInitialReportActions, sets it back to true.
C32_FlagClearedUntilRouteChange ==
    [][(~isFirstLinkedActionRender /\ isFirstLinkedActionRender') => called' = "Navigate"]_vars

\* C33: the focus handler terminates for every combination of props: when
\* the input gains focus, a supplied onFocus prop is invoked once and
\* isFocused becomes true, as onBlur invokes a supplied onBlur prop once and
\* sets isFocused false.
C33_FocusHandlerTerminates ==
    /\ textCalled = "onFocus" =>
         /\ thrown = ""
         /\ isFocused
         /\ propCalled = IF onFocusProp THEN << "onFocus" >> ELSE << >>
    /\ textCalled = "onBlur" =>
         /\ thrown = ""
         /\ ~isFocused
         /\ propCalled = IF onBlurProp THEN << "onBlur" >> ELSE << >>

\* C34: the queue keeps making progress after the wrapped function has
\* thrown: every call queued afterwards is still executed.  processQueue
\* runs only from a call made while timerId is null or from the timeout, so
\* a queued call is executed only if a timeout is scheduled: while calls are
\* queued, a timeout for processQueue is pending.
C34_ProgressAfterThrow == queue # << >> => timerPending

\* C35: subscribeToReportTypingEvents is never called while the report is
\* still being created (pendingFields.createChat or addWorkspaceRoom set),
\* is called at most once per mounted instance over any sequence of changes
\* of pendingFields, and is never called once the component has been torn
\* down.
C35_TypingSubscription ==
    /\ [](Len(subscribed) <= 1)
    /\ [][subscribed' # subscribed => (~reportIsCreating /\ mounted)]_vars

\* The view subscribed once its report was created; the pendingFields have
\* changed again since, and the effect has not scheduled another task.
C35_Witness ==
    /\ subscribed = << ReportID >>
    /\ didSubscribeToReportTypingEvents
    /\ typingTask = "done"
    /\ reportIsCreating
    /\ mounted

\* C36: arePropsEqual returns true only if every prop the component reads is
\* equal between the old and the new props, transactionThreadReport
\* included: whenever it has returned true, the component's props are the
\* ones the parent passed.
C36_EqualOnlyIfAllPropsEqual ==
    propsAreEqual => \A name \in PropNames : oldProps[name] = newProps[name]

====
